---- MODULE Spec2Model ----
(***************************************************************************)
(* Kntor MCP server: the Worker's fetch handler (src/src/index.ts), the    *)
(* API-key authenticator (src/src/auth/api-key.ts), the tool registry      *)
(* (src/src/tools/index.ts) and the tool executors' data-store queries.    *)
(*                                                                         *)
(* Spec      one HTTP request to /mcp or /messages, followed through the   *)
(*           suspension points of fetch: credential extraction, key        *)
(*           validation, body parsing, the per-message loop, the response. *)
(* SpecTools one tool executor run against a two-tenant data store.        *)
(***************************************************************************)
EXTENDS Integers, Sequences, FiniteSets, TLC

VARIABLES
  pc,            \* position of the request inside fetch
  req,           \* the inbound HTTP request
  apiKey,        \* result of extractApiKey
  apiKeyResult,  \* result of validateApiKey
  collabCalls,   \* network calls made to the validation collaborator
  collabNet,     \* history: how the call to the collaborator ended ("none": no call)
  bodyRead,      \* request.json() has been invoked
  messages,      \* the batch loop's `messages`
  idx,           \* number of elements of `messages` already processed
  responses,     \* the batch loop's `responses`
  answered,      \* history: for each entry of responses, the element it answers
  dispatched,    \* history: elements passed to handleMCPMessage, in order
  toolRuns,      \* history: tool executors started (name, brand)
  http,          \* the HTTP response, once produced
  tpc,           \* SpecTools: position of the executor
  call,          \* SpecTools: the tool call being executed (context + input)
  store,         \* SpecTools: rows of the data store
  queries,       \* SpecTools: history of the requests sent to the data store
  touched,       \* SpecTools: history of the rows the current call read or modified
  ncalls,        \* SpecTools: tool calls made so far
  fresh,         \* SpecTools: ids the data store has generated
  stream,        \* SpecStream: the event stream of a GET, its frames and timers
  prior,         \* SpecPair: what the earlier requests of the behaviour did
  proxy          \* SpecProxy: the stdio proxy's stdin, buffer, calls and stdout

httpVars == <<pc, req, apiKey, apiKeyResult, collabCalls, collabNet, bodyRead,
              messages, idx, responses, answered, dispatched, toolRuns, http>>
toolVars == <<tpc, call, store, queries, touched, ncalls, fresh>>
vars == <<pc, req, apiKey, apiKeyResult, collabCalls, collabNet, bodyRead, messages,
          idx, responses, answered, dispatched, toolRuns, http,
          tpc, call, store, queries, touched, ncalls, fresh, stream, prior, proxy>>

----------------------------------------------------------------------------
(* Bounds *)

MaxBatch == 2   \* longest JSON array POSTed
MaxCalls == 2   \* tool calls made in a row against the data store
MaxHandled == 3 \* messages handled in a row by the protocol handler

----------------------------------------------------------------------------
(* JavaScript values.  Every JSON scalar is a record of the same shape so  *)
(* that values of different JavaScript types can be compared.              *)

Undefined == [t |-> "undefined", s |-> "", n |-> 0]
JNull     == [t |-> "null", s |-> "", n |-> 0]
JStr(x)   == [t |-> "string", s |-> x, n |-> 0]
JNum(k)   == [t |-> "number", s |-> "", n |-> k]

\* JavaScript truthiness (the `!x` of the source is ~Truthy(x))
Truthy(v) ==
  CASE v.t = "undefined" -> FALSE
    [] v.t = "null"      -> FALSE
    [] v.t = "string"    -> v.s # ""
    [] v.t = "number"    -> v.n # 0
    [] OTHER             -> TRUE

\* x ?? null
OrNull(v) == IF v.t = "undefined" THEN JNull ELSE v

\* Header strings that the code inspects by prefix are sequences of characters.
NoHeader == [present |-> FALSE, chars |-> <<>>]
Hdr(cs)  == [present |-> TRUE, chars |-> cs]

StartsWith(s, p) == Len(s) >= Len(p) /\ SubSeq(s, 1, Len(p)) = p

\* String.prototype.replace(pat, rep) with a string pattern: first occurrence
ReplaceFirst(s, pat, rep) ==
  LET hits == {i \in 1..(Len(s) - Len(pat) + 1) :
                 SubSeq(s, i, i + Len(pat) - 1) = pat}
  IN IF hits = {} THEN s
     ELSE LET i == CHOOSE j \in hits : \A k \in hits : j <= k
          IN SubSeq(s, 1, i - 1) \o rep \o SubSeq(s, i + Len(pat), Len(s))

KntorPrefix  == <<"k","n","t","o","r","_">>
BearerSpace  == <<"B","e","a","r","e","r"," ">>
BearerKntor  == BearerSpace \o KntorPrefix

KeyA   == KntorPrefix \o <<"a">>     \* a key the collaborator knows (tenant A)
BadFmt == <<"a","b","c">>            \* a key without the prefix


----------------------------------------------------------------------------
(* JSON-RPC envelopes *)

NoField == [present |-> FALSE, code |-> 0, tag |-> ""]

\* jsonRPCSuccess: {jsonrpc, id, result}
jsonRPCSuccess(id, result) ==
  [jsonrpc |-> "2.0", id |-> id,
   result |-> [present |-> TRUE, code |-> 0, tag |-> result],
   error  |-> NoField]

\* jsonRPCError: {jsonrpc, id, error: {code, message, data}}
jsonRPCError(id, code, message) ==
  [jsonrpc |-> "2.0", id |-> id,
   result |-> NoField,
   error  |-> [present |-> TRUE, code |-> code, tag |-> message]]

\* MCP_ERRORS: the code of each named error
MCP_ERRORS(errorType) ==
  CASE errorType = "API_KEY_MISSING"        -> -32001
    [] errorType = "API_KEY_INVALID_FORMAT" -> -32002
    [] errorType = "API_KEY_INVALID"        -> -32003
    [] errorType = "API_KEY_INACTIVE"       -> -32004
    [] errorType = "API_KEY_EXPIRED"        -> -32005
    [] errorType = "RATE_LIMIT_EXCEEDED"    -> -32006
    [] errorType = "SERVER_CONFIG_ERROR"    -> -32010

\* createAuthErrorResponse: the JSON-RPC error (id null) and the HTTP status
createAuthErrorResponse(errorType) ==
  [response |-> jsonRPCError(JNull, MCP_ERRORS(errorType), errorType),
   status   |-> IF errorType = "SERVER_CONFIG_ERROR" THEN 500 ELSE 401]

\* getAuthError: validation result -> named error
getAuthError(r) ==
  IF r.error = "" THEN "API_KEY_INVALID"
  ELSE CASE r.error = "invalid_format"   -> "API_KEY_INVALID_FORMAT"
         [] r.error = "not_found"        -> "API_KEY_INVALID"
         [] r.error = "validation_error" -> "API_KEY_INVALID"
         [] r.error = "inactive"         -> "API_KEY_INACTIVE"
         [] r.error = "expired"          -> "API_KEY_EXPIRED"
         [] r.error = "rate_limit"       -> "RATE_LIMIT_EXCEEDED"
         [] r.error = "config_error"     -> "SERVER_CONFIG_ERROR"
         [] r.error = "internal_error"   -> "SERVER_CONFIG_ERROR"
         [] OTHER                        -> "API_KEY_INVALID"

----------------------------------------------------------------------------
(* Authenticator *)

\* mutant of extractApiKey: any Bearer token is taken for a key
extractApiKey_anyBearer(r) ==
  IF r.xApiKey.present /\ r.xApiKey.chars # <<>>
  THEN Hdr(r.xApiKey.chars)
  ELSE IF r.authorization.present /\ StartsWith(r.authorization.chars, BearerSpace)
       THEN Hdr(ReplaceFirst(r.authorization.chars, BearerSpace, <<>>))
       ELSE NoHeader

\* extractApiKey: x-api-key when truthy, else a Bearer token that looks like
\* a key, else null
extractApiKey(r) ==
  IF r.xApiKey.present /\ r.xApiKey.chars # <<>>
  THEN Hdr(r.xApiKey.chars)
  ELSE IF r.authorization.present /\ StartsWith(r.authorization.chars, BearerKntor)
       THEN Hdr(ReplaceFirst(r.authorization.chars, BearerSpace, <<>>))
       ELSE NoHeader

NoQuota     == [defined |-> FALSE, n |-> 0]
Quota(k)    == [defined |-> TRUE, n |-> k]
Invalid(e)  == [valid |-> FALSE, error |-> e, brand_id |-> "", remaining_calls |-> NoQuota]

\* mutant of BadFormat: only the empty key is refused locally
BadFormat_emptyOnly(key) == key = <<>>

\* the basic format validation of validateApiKey: `!apiKey || !apiKey.startsWith('kntor_')`
BadFormat(key) == key = <<>> \/ ~StartsWith(key, KntorPrefix)

\* What the validate_mcp_api_key RPC may answer with HTTP 200: a key it knows
\* is valid with its brand and quota, or any key is refused with an error tag.
KnownKeys  == {KeyA}
BrandOf(key) == IF key = KeyA THEN "brandA" ELSE ""
QuotaVals  == {NoQuota, Quota(0), Quota(1)}
ErrorTags  == {"", "invalid_format", "not_found", "inactive", "expired",
               "rate_limit", "config_error", "internal_error"}
CollabResults(key) ==
  {Invalid(e) : e \in ErrorTags}
  \cup {[valid |-> TRUE, error |-> "", brand_id |-> BrandOf(key), remaining_calls |-> q] :
          q \in IF key \in KnownKeys THEN QuotaVals ELSE {}}

\* outcomes of the fetch to the collaborator
CollabOutcomes(key) ==
  {[net |-> n, result |-> Invalid("")] : n \in {"reject", "non_ok", "bad_json"}}
  \cup {[net |-> "ok", result |-> r] : r \in CollabResults(key)}

\* mutant of validateApiKey: a rejected fetch lets the key through
validateApiKey_failOpen(key, o) ==
  IF key = <<>> \/ ~StartsWith(key, KntorPrefix) THEN Invalid("invalid_format")
  ELSE CASE o.net = "reject"   -> [valid |-> TRUE, error |-> "", brand_id |-> "",
                                   remaining_calls |-> NoQuota]
         [] o.net = "non_ok"   -> Invalid("validation_error")
         [] o.net = "bad_json" -> Invalid("internal_error")
         [] o.net = "ok"       -> o.result

\* validateApiKey, given the outcome o of the network call it may make
validateApiKey(key, o) ==
  IF BadFormat(key) THEN Invalid("invalid_format")
  ELSE CASE o.net = "reject"   -> Invalid("internal_error")
         [] o.net = "non_ok"   -> Invalid("validation_error")
         [] o.net = "bad_json" -> Invalid("internal_error")
         [] o.net = "ok"       -> o.result

\* number of network calls validateApiKey makes for a key
validateApiKeyCalls(key) == IF BadFormat(key) THEN 0 ELSE 1

----------------------------------------------------------------------------
(* Tool registry and dispatcher *)

\* Object.keys(toolExecutors)
toolExecutors == {"get_availability", "schedule_appointment"}

\* toolExecutors is an object literal: besides its own keys, a property
\* lookup finds what Object.prototype provides, among them the function
\* `constructor` (Object) and the object `__proto__`
ObjectPrototype == {"constructor", "__proto__"}

\* `toolExecutors[toolName]`
Lookup(toolName) ==
  IF toolName \in toolExecutors THEN "executor"
  ELSE IF toolName \in ObjectPrototype THEN toolName
  ELSE "undefined"

\* the lookup gives a function, which `executor(input, context, env)` runs
RunsFunction(toolName) == Lookup(toolName) \in {"executor", "constructor"}

\* how a registered executor ends: a ToolResult (success or failure), a
\* ZodError of its schema, or another exception
ExecOutcomes == {"success", "failure", "zod", "throw"}

\* how `await executor(input, context, env)` ends for a name: Object(input)
\* returns the arguments, whose `success` is truthy or not; calling the
\* object `__proto__` raises a TypeError
Outcomes(toolName) ==
  CASE Lookup(toolName) = "executor"    -> ExecOutcomes
    [] Lookup(toolName) = "constructor" -> {"success", "failure"}
    [] Lookup(toolName) = "__proto__"   -> {"throw"}
    [] OTHER                            -> {"success"}

\* mutant of Catches: only validation errors are caught
Catches_zodOnly(exec) == exec = "zod"

\* `catch (error)` of executeTool: whatever the executor raised
Catches(exec) == exec \in {"zod", "throw"}

\* executeTool: no property of that name -> failure without running anything;
\* otherwise the executor's ToolResult, exceptions converted to failures.
\* fault: an exception leaves executeTool.
executeTool(toolName, exec) ==
  IF Lookup(toolName) = "undefined"
  THEN [success |-> FALSE, error |-> "Unknown tool", fault |-> FALSE]
  ELSE IF exec \in {"zod", "throw"}
  THEN IF Catches(exec)
       THEN [success |-> FALSE,
             error |-> IF exec = "zod" THEN "Invalid input" ELSE "exception message",
             fault |-> FALSE]
       ELSE [success |-> FALSE, error |-> "", fault |-> TRUE]
  ELSE [success |-> exec = "success",
        error |-> IF exec = "failure" /\ Lookup(toolName) = "executor"
                  THEN "tool error" ELSE "",
        fault |-> FALSE]

----------------------------------------------------------------------------
(* Protocol handler *)

\* mutant of RateLimited: a quota of zero still lets the call through
RateLimited_negativeOnly(r) == r.remaining_calls.defined /\ r.remaining_calls.n < 0

\* mutant of RateLimited: the last call of the quota is refused as well
RateLimited_lastCall(r) == r.remaining_calls.defined /\ r.remaining_calls.n <= 1

\* the rate-limit check of tools/call
RateLimited(r) == r.remaining_calls.defined /\ r.remaining_calls.n <= 0

\* tools/call reaches executeTool
CallsExecuteTool(m, r) ==
  /\ m.method = JStr("tools/call")
  /\ Truthy(m.pname)
  /\ ~RateLimited(r)

\* mutant of ToolEnvelope: a tool failure becomes a protocol-level error
ToolEnvelope_protocolError(id, result) ==
  IF result.success
  THEN jsonRPCSuccess(id, "content")
  ELSE jsonRPCError(id, -32603, "tool failed")

\* tools/call: the ToolResult wrapped as {content: [{type: 'text', text}]},
\* with isError: true for a failure
ToolEnvelope(id, result) ==
  IF result.success
  THEN jsonRPCSuccess(id, "content")
  ELSE jsonRPCSuccess(id, "content isError")

\* mutant of ListTools: the list is consumed by the first tool that runs
ListTools_consumed == IF toolRuns = <<>> THEN "tools" ELSE "empty"

\* tools/list: `tools.map(tool => ({name, description, inputSchema}))` over
\* the module's `tools` array
ListTools == "tools"

\* handleMCPMessage; exec is the outcome of the tool executor, if one runs
handleMCPMessage(m, r, exec) ==
  LET id == OrNull(m.id)
      method == m.method
  IN CASE method = JStr("initialize") -> jsonRPCSuccess(id, "initialize")
       [] method = JStr("initialized") -> jsonRPCSuccess(id, "empty")
       [] method = JStr("notifications/initialized") -> jsonRPCSuccess(id, "empty")
       [] method = JStr("tools/list") -> jsonRPCSuccess(id, ListTools)
       [] method = JStr("tools/call") ->
            IF ~Truthy(m.pname)
            THEN jsonRPCError(id, -32602, "Invalid params: tool name required")
            ELSE IF RateLimited(r)
            THEN jsonRPCError(id, MCP_ERRORS("RATE_LIMIT_EXCEEDED"), "Rate limit exceeded")
            ELSE ToolEnvelope(id, executeTool(m.pname.s, exec))
       [] method = JStr("resources/list") -> jsonRPCSuccess(id, "resources")
       [] method = JStr("resources/read") -> jsonRPCError(id, -32601, "Resources not implemented")
       [] method = JStr("prompts/list") -> jsonRPCSuccess(id, "prompts")
       [] method = JStr("prompts/get") -> jsonRPCError(id, -32601, "Prompts not implemented")
       [] method = JStr("ping") -> jsonRPCSuccess(id, "empty")
       [] OTHER -> jsonRPCError(id, -32601, "Method not found")

----------------------------------------------------------------------------
(* Requests *)

\* one element of a decoded body: a JSON object with the fields the server
\* reads, or JSON null
Msg(j, i, m, p) == [k |-> "object", jsonrpc |-> j, id |-> i, method |-> m, pname |-> p]
NullElem  == [k |-> "null", jsonrpc |-> Undefined, id |-> Undefined,
              method |-> Undefined, pname |-> Undefined]
\* a JSON array read as a message: none of the fields exists
ArrayElem == [k |-> "array", jsonrpc |-> Undefined, id |-> Undefined,
              method |-> Undefined, pname |-> Undefined]

V2 == JStr("2.0")
Elements ==
  { Msg(V2, JNum(1), JStr("ping"), Undefined),
    Msg(V2, Undefined, JStr("notifications/initialized"), Undefined),
    Msg(V2, JNum(2), JStr("tools/call"), JStr("get_availability")),
    Msg(V2, Undefined, JStr("tools/call"), JStr("get_availability")),
    Msg(V2, JNum(2), JStr("tools/call"), JStr("nonexistent_tool")),
    Msg(V2, JNum(2), JStr("tools/call"), JStr("constructor")),
    Msg(V2, JNum(2), JStr("tools/call"), JStr("__proto__")),
    Msg(V2, JNum(1), JStr("tools/call"), Undefined),
    Msg(V2, JNum(1), JStr("foo/bar"), Undefined),
    Msg(V2, JNull, JStr("ping"), Undefined),
    Msg(JStr("1.0"), JNum(1), JStr("ping"), Undefined),
    Msg(V2, Undefined, Undefined, Undefined),
    Msg(V2, JNum(2), JStr(""), Undefined),
    Msg(V2, JNum(2), JNum(42), Undefined),
    NullElem }

SeqsUpTo(S, n) == UNION {[1..k -> S] : k \in 0..n}

Bodies ==
  {[parse |-> "fail", isArray |-> FALSE, elems |-> <<>>]}
  \cup {[parse |-> "ok", isArray |-> FALSE, elems |-> <<e>>] : e \in Elements}
  \cup {[parse |-> "ok", isArray |-> TRUE, elems |-> es] : es \in SeqsUpTo(Elements, MaxBatch)}

EventStream == "text/event-stream"
AcceptVals  == {<<>>, <<"application/json", EventStream>>}
SessionVals == {"", "client-session"}
UUIDs       == {"uuid-1", "uuid-2"}

Requests ==
  [path          : {"/mcp", "/messages"},
   method        : {"POST"},
   xApiKey       : {NoHeader, Hdr(<<>>), Hdr(KeyA), Hdr(BadFmt)},
   authorization : {NoHeader, Hdr(BearerSpace \o KeyA), Hdr(BearerSpace \o BadFmt), Hdr(KeyA)},
   accept        : AcceptVals,
   session       : SessionVals,
   body          : Bodies]

\* acceptHeader.includes('text/event-stream')
Includes(accept, mediaType) == \E i \in 1..Len(accept) : accept[i] = mediaType

NoHttp == [status |-> 0, ctype |-> "", shape |-> "none", entries |-> <<>>, session |-> ""]
NoResult == Invalid("")

\* new Response(JSON.stringify(x), {status, headers: {'Content-Type': 'application/json'}})
JsonResponse(status, entry) ==
  [status |-> status, ctype |-> "application/json", shape |-> "object",
   entries |-> <<entry>>, session |-> ""]

\* the answer to a failed authentication
AuthErrorResponse(errorType) ==
  JsonResponse(createAuthErrorResponse(errorType).status,
               createAuthErrorResponse(errorType).response)

\* `!message || message.jsonrpc !== '2.0' || !message.method` (/mcp)
IsInvalidRequest(m) == m.k = "null" \/ m.jsonrpc # V2 \/ ~Truthy(m.method)

\* mutant of Push: unshift instead of push
Push_front(list, x) == <<x>> \o list

\* responses.push(x)
Push(list, x) == Append(list, x)

\* mutant of HasId: `message.id != null`
HasId_notNull(m) == m.id # Undefined /\ m.id # JNull

\* `if (message.id !== undefined)`: the message is not a notification
HasId(m) == m.id # Undefined

\* mutant of AuthFailed: `if (apiKeyResult.error)`
AuthFailed_errorOnly(r) == r.error # ""

\* mutant of AuthFailed: the check is missing
AuthFailed_never(r) == FALSE

\* `if (!apiKeyResult.valid)`
AuthFailed(r) == ~r.valid

\* the history entry of one executor call and the way it ended
Run(m, r, exec) == [name |-> m.pname.s, brandId |-> r.brand_id, exec |-> exec]

\* the executor of a tools/call is started
StartsExecutor(m, r) == CallsExecuteTool(m, r) /\ RunsFunction(m.pname.s)

\* the outcomes of the executor call made for a message, if one is made
OutcomesOf(m, r) ==
  IF CallsExecuteTool(m, r) THEN Outcomes(m.pname.s) ELSE {"success"}

\* an exception leaves handleMCPMessage
Faults(m, r, exec) == CallsExecuteTool(m, r) /\ executeTool(m.pname.s, exec).fault

\* what the runtime answers when fetch rejects
UnhandledException ==
  [status |-> 500, ctype |-> "", shape |-> "exception", entries |-> <<>>, session |-> ""]

----------------------------------------------------------------------------
(* The fetch handler, POST /mcp and /messages *)

\* no tool call: the context's brandId, the tool's input fields ("" = not given)
\* and the executor's local variables
NoCall == [brandId |-> "", tool |-> "", action |-> "",
           customer_id |-> "", stage_name |-> "", phone |-> "", expediente_id |-> "",
           service_id |-> "", service_name |-> "", priced |-> FALSE,
           service_type_code |-> "", document_number |-> "", start_date |-> "",
           first_name |-> "", query |-> "",
           funnelId |-> "", positionId |-> "", currentStageId |-> "",
           targetStageId |-> "", rowId |-> "", serviceTypeId |-> "",
           beneficiaryId |-> "", success |-> FALSE]

\* no event stream: nothing opened, no frame written, no timer set, no write
\* has failed (failedAt: the number of frames written when a write first
\* failed, -1 = none has) and no write was issued after the close
NoStream == [state |-> "none", sessionId |-> "", frames |-> <<>>,
             interval |-> FALSE, timer |-> FALSE, elapsed |-> 0,
             failedAt |-> -1, late |-> FALSE]

\* no earlier request: n counts the requests answered before the present one
NoPrior == [n |-> 0, req |-> <<>>, http |-> NoHttp, toolRuns |-> <<>>,
            result |-> NoResult, net |-> "none", deleted |-> {}]

\* the stdio proxy is not running
NoProxy == [stdin |-> <<>>, input |-> <<>>, buffer |-> <<>>, nlines |-> 0,
            pending |-> {}, forwarded |-> {}, logged |-> {}, stdout |-> <<>>]

ToolsIdle ==
  /\ stream = NoStream
  /\ prior = NoPrior
  /\ proxy = NoProxy
  /\ tpc = "off"
  /\ call = NoCall
  /\ store = {}
  /\ queries = <<>>
  /\ touched = {}
  /\ ncalls = 0
  /\ fresh = 0

\* the collaborators of a later request answer as they answered the request
\* before it, wherever they are asked the same thing
AnswersAsBefore(chars, outcomes) ==
  LET same == {o \in outcomes :
                 /\ validateApiKey(chars, o) = prior.result
                 /\ (IF validateApiKeyCalls(chars) = 0 THEN "none" ELSE o.net) = prior.net}
  IN IF prior.n > 0 /\ same # {} THEN same ELSE outcomes

SameAsBefore(outcomes) ==
  LET k == Len(toolRuns) + 1 IN
    IF prior.n > 0 /\ k <= Len(prior.toolRuns) /\ prior.toolRuns[k].exec \in outcomes
    THEN {prior.toolRuns[k].exec}
    ELSE outcomes

Init ==
  /\ req \in Requests
  /\ pc = "extract"
  /\ apiKey = NoHeader
  /\ apiKeyResult = NoResult
  /\ collabCalls = 0
  /\ collabNet = "none"
  /\ bodyRead = FALSE
  /\ messages = <<>>
  /\ idx = 0
  /\ responses = <<>>
  /\ answered = <<>>
  /\ dispatched = <<>>
  /\ toolRuns = <<>>
  /\ http = NoHttp
  /\ ToolsIdle

\* fetch: extractApiKey and the answer to a missing key
ExtractStep ==
  /\ pc = "extract"
  /\ apiKey' = extractApiKey(req)
  /\ IF ~apiKey'.present
     THEN /\ http' = AuthErrorResponse("API_KEY_MISSING")
          /\ pc' = "done"
     ELSE /\ http' = http
          /\ pc' = "validate"
  /\ UNCHANGED <<req, apiKeyResult, collabCalls, collabNet, bodyRead, messages, idx,
                 responses, answered, dispatched, toolRuns>>
  /\ UNCHANGED <<toolVars, stream, prior, proxy>>

\* fetch: await validateApiKey and the answer to an invalid key
ValidateStep ==
  /\ pc = "validate"
  /\ \E o \in AnswersAsBefore(apiKey.chars, CollabOutcomes(apiKey.chars)) :
       /\ apiKeyResult' = validateApiKey(apiKey.chars, o)
       /\ collabNet' = IF validateApiKeyCalls(apiKey.chars) = 0 THEN "none" ELSE o.net
  /\ collabCalls' = collabCalls + validateApiKeyCalls(apiKey.chars)
  /\ IF AuthFailed(apiKeyResult')
     THEN /\ http' = AuthErrorResponse(getAuthError(apiKeyResult'))
          /\ pc' = "done"
     ELSE /\ http' = http
          /\ pc' = "parse"
  /\ UNCHANGED <<req, apiKey, bodyRead, messages, idx,
                 responses, answered, dispatched, toolRuns>>
  /\ UNCHANGED <<toolVars, stream, prior, proxy>>

ParseError == JsonResponse(400, jsonRPCError(JNull, -32700, "Parse error"))

\* POST /mcp: await request.json(), then `messages`
McpParseStep ==
  /\ pc = "parse"
  /\ req.path = "/mcp"
  /\ bodyRead' = TRUE
  /\ IF req.body.parse = "fail"
     THEN /\ http' = ParseError
          /\ pc' = "done"
          /\ messages' = messages
     ELSE /\ http' = http
          /\ pc' = "loop"
          /\ messages' = req.body.elems
  /\ UNCHANGED <<req, apiKey, apiKeyResult, collabCalls, collabNet, idx,
                 responses, answered, dispatched, toolRuns>>
  /\ UNCHANGED <<toolVars, stream, prior, proxy>>

\* POST /mcp: one iteration of `for (const message of messages)`
McpLoopStep ==
  /\ pc = "loop"
  /\ idx < Len(messages)
  /\ LET message == messages[idx + 1] IN
       IF IsInvalidRequest(message)
       THEN /\ responses' = Push(responses, jsonRPCError(OrNull(message.id), -32600, "Invalid Request"))
            /\ answered' = Push(answered, idx + 1)
            /\ UNCHANGED <<dispatched, toolRuns, pc, http>>
       ELSE /\ dispatched' = Append(dispatched, idx + 1)
            /\ \E exec \in SameAsBefore(OutcomesOf(message, apiKeyResult)) :
                 /\ toolRuns' = IF StartsExecutor(message, apiKeyResult)
                                THEN Append(toolRuns, Run(message, apiKeyResult, exec))
                                ELSE toolRuns
                 /\ IF Faults(message, apiKeyResult, exec)
                    THEN /\ http' = UnhandledException
                         /\ pc' = "done"
                         /\ UNCHANGED <<responses, answered>>
                    ELSE /\ UNCHANGED <<pc, http>>
                         /\ IF HasId(message)
                            THEN /\ responses' = Push(responses, handleMCPMessage(message, apiKeyResult, exec))
                                 /\ answered' = Push(answered, idx + 1)
                            ELSE UNCHANGED <<responses, answered>>
  /\ idx' = idx + 1
  /\ UNCHANGED <<req, apiKey, apiKeyResult, collabCalls, collabNet, bodyRead, messages>>
  /\ UNCHANGED <<toolVars, stream, prior, proxy>>

\* mutant of HandledStatus: a session id the server did not mint is not found
HandledStatus_mintedOnly(header) == IF header \in {""} \cup UUIDs THEN 200 ELSE 404

\* the status of `new Response(body, {headers})` after the messages were
\* handled: no status is given and no session is looked up
HandledStatus(header) == 200

\* mutant of SessionId: the header of the request is ignored
SessionId_alwaysMint(header, minted) == minted

\* `request.headers.get('Mcp-Session-Id') || crypto.randomUUID()`
SessionId(header, minted) == IF header # "" THEN header ELSE minted

\* mutant of MessageFrame: the frame carries the last response
MessageFrame_last(list, k) == [event |-> "message", data |-> list[Len(list)]]

\* `event: message\ndata: ${JSON.stringify(response)}\n\n` for the k-th response
MessageFrame(list, k) == [event |-> "message", data |-> list[k]]

\* the first write that fails is remembered
Failed(s) == [s EXCEPT !.failedAt = IF @ = -1 THEN Len(s.frames) ELSE @]

\* `catch (error) { ... await writer.close() }` of the SSE response
CatchFrames(s) == [Failed(s) EXCEPT !.state = "closed"]

\* new TransformStream() for the responses of a POST
OpenFrames(id) ==
  [state |-> "open", sessionId |-> id, frames |-> <<>>,
   interval |-> FALSE, timer |-> FALSE, elapsed |-> 0,
   failedAt |-> -1, late |-> FALSE]

\* POST /mcp: the response, as a stream of SSE frames or as one JSON body
McpRespondStep ==
  /\ pc = "loop"
  /\ idx = Len(messages)
  /\ \E minted \in UUIDs :
       LET sessionId == SessionId(req.session, minted) IN
         IF Includes(req.accept, EventStream)
         THEN /\ http' = [status |-> HandledStatus(req.session), ctype |-> EventStream,
                          shape |-> "frames", entries |-> responses, session |-> sessionId]
              /\ stream' = OpenFrames(sessionId)
              /\ pc' = "sse"
         ELSE /\ http' = IF req.body.isArray
                         THEN [status |-> HandledStatus(req.session), ctype |-> "application/json",
                               shape |-> "array", entries |-> responses, session |-> sessionId]
                         ELSE IF Len(responses) > 0
                         THEN [status |-> HandledStatus(req.session), ctype |-> "application/json",
                               shape |-> "object", entries |-> <<responses[1]>>, session |-> sessionId]
                         ELSE [status |-> HandledStatus(req.session), ctype |-> "application/json",
                               shape |-> "empty", entries |-> <<>>, session |-> sessionId]
              /\ stream' = stream
              /\ pc' = "done"
  /\ UNCHANGED <<req, apiKey, apiKeyResult, collabCalls, collabNet, bodyRead, messages, idx,
                 responses, answered, dispatched, toolRuns>>
  /\ UNCHANGED <<toolVars, prior, proxy>>

\* POST /mcp, SSE: the next `await writer.write(...)` of the loop settles; a
\* rejected write ends the loop in the catch block, which closes the writer
McpSseWriteStep ==
  /\ pc = "sse"
  /\ Len(stream.frames) < Len(responses)
  /\ \E written \in BOOLEAN :
       IF written
       THEN /\ stream' = [stream EXCEPT !.frames =
                                  Append(@, MessageFrame(responses, Len(stream.frames) + 1))]
            /\ pc' = pc
       ELSE /\ stream' = CatchFrames(stream)
            /\ pc' = "done"
  /\ UNCHANGED <<req, apiKey, apiKeyResult, collabCalls, collabNet, bodyRead, messages, idx,
                 responses, answered, dispatched, toolRuns, http>>
  /\ UNCHANGED <<toolVars, prior, proxy>>

\* POST /mcp, SSE: the loop is over, `await writer.close()`
McpSseCloseStep ==
  /\ pc = "sse"
  /\ Len(stream.frames) = Len(responses)
  /\ stream' = [stream EXCEPT !.state = "closed"]
  /\ pc' = "done"
  /\ UNCHANGED <<req, apiKey, apiKeyResult, collabCalls, collabNet, bodyRead, messages, idx,
                 responses, answered, dispatched, toolRuns, http>>
  /\ UNCHANGED <<toolVars, prior, proxy>>

\* the body of a /messages request read as one message
BodyAsMessage(body) == IF body.isArray THEN ArrayElem ELSE body.elems[1]

\* `message.jsonrpc !== '2.0' || !message.method` (/messages)
MessagesInvalidRequest(m) == m.jsonrpc # V2 \/ ~Truthy(m.method)

\* the id of the Invalid Request answer of /messages
MessagesInvalidId(m) == JNull

\* /messages: await request.json() and the format validation
MessagesParseStep ==
  /\ pc = "parse"
  /\ req.path = "/messages"
  /\ bodyRead' = TRUE
  /\ IF req.body.parse = "fail"
     THEN /\ http' = ParseError
          /\ pc' = "done"
          /\ messages' = messages
     ELSE LET message == BodyAsMessage(req.body) IN
          /\ messages' = <<message>>
          /\ IF message.k = "null"
             THEN \* reading a property of null throws; nothing catches it
                  /\ http' = UnhandledException
                  /\ pc' = "done"
             ELSE IF MessagesInvalidRequest(message)
             THEN /\ http' = JsonResponse(400, jsonRPCError(MessagesInvalidId(message), -32600, "Invalid Request"))
                  /\ pc' = "done"
             ELSE /\ http' = http
                  /\ pc' = "handle"
  /\ UNCHANGED <<req, apiKey, apiKeyResult, collabCalls, collabNet, idx,
                 responses, answered, dispatched, toolRuns>>
  /\ UNCHANGED <<toolVars, stream, prior, proxy>>

\* /messages: await handleMCPMessage and the response
MessagesHandleStep ==
  /\ pc = "handle"
  /\ LET message == messages[1] IN
       /\ dispatched' = Append(dispatched, 1)
       /\ \E exec \in SameAsBefore(OutcomesOf(message, apiKeyResult)) :
            /\ toolRuns' = IF StartsExecutor(message, apiKeyResult)
                           THEN Append(toolRuns, Run(message, apiKeyResult, exec))
                           ELSE toolRuns
            /\ IF Faults(message, apiKeyResult, exec)
               THEN /\ http' = UnhandledException
                    /\ UNCHANGED <<responses, answered>>
               ELSE /\ responses' = <<handleMCPMessage(message, apiKeyResult, exec)>>
                    /\ http' = JsonResponse(200, handleMCPMessage(message, apiKeyResult, exec))
                    /\ answered' = <<1>>
  /\ idx' = 1
  /\ pc' = "done"
  /\ UNCHANGED <<req, apiKey, apiKeyResult, collabCalls, collabNet, bodyRead, messages>>
  /\ UNCHANGED <<toolVars, stream, prior, proxy>>

Next ==
  \/ ExtractStep
  \/ ValidateStep
  \/ McpParseStep
  \/ McpLoopStep
  \/ McpRespondStep
  \/ McpSseWriteStep
  \/ McpSseCloseStep
  \/ MessagesParseStep
  \/ MessagesHandleStep

Spec == Init /\ [][Next]_vars

----------------------------------------------------------------------------
(* Properties of Spec *)

Done == pc = "done"

\* the response is one JSON-RPC error object with this code
IsError(code) ==
  /\ http.shape = "object"
  /\ http.entries[1].error.present
  /\ ~http.entries[1].result.present
  /\ http.entries[1].error.code = code

AuthCodes == {-32001, -32002, -32003, -32004, -32005, -32006, -32010}

\* the request carries none of the two accepted credentials
NoCredential(r) ==
  /\ ~r.xApiKey.present
  /\ ~(r.authorization.present /\ StartsWith(r.authorization.chars, BearerKntor))

\* the element has an `id` member (null included)
CarriesId(m) == m.id.t # "undefined"

\* the element does not pass the server's format check: not an object,
\* jsonrpc other than "2.0", or a falsy method
FailsFormatCheck(m) ==
  \/ m.k # "object"
  \/ ~(m.jsonrpc.t = "string" /\ m.jsonrpc.s = "2.0")
  \/ m.method.t \in {"undefined", "null"}
  \/ (m.method.t = "string" /\ m.method.s = "")
  \/ (m.method.t = "number" /\ m.method.n = 0)

\* jsonrpc is not "2.0" or method is not a non-empty string
NotWellFormed(m) ==
  \/ ~(m.jsonrpc.t = "string" /\ m.jsonrpc.s = "2.0")
  \/ ~(m.method.t = "string" /\ m.method.s # "")

Range(f) == {f[i] : i \in DOMAIN f}

\* list enumerates the set S of indices in increasing order
EnumeratesInOrder(list, S) ==
  /\ Len(list) = Cardinality(S)
  /\ Range(list) = S
  /\ \A k \in 1..Len(list) : \A l \in 1..Len(list) : k < l => list[k] < list[l]

\* a POST /mcp with a valid credential and a parsed body has been answered
McpAnswered ==
  /\ Done
  /\ req.path = "/mcp"
  /\ apiKeyResult.valid
  /\ req.body.parse = "ok"

\* C1: nothing is dispatched to handleMCPMessage, no executor is started and
\* the body is not even touched unless, in this request, extractApiKey
\* returned a key and validateApiKey returned valid = true after asking the
\* collaborator; a request without a valid credential ends with neither.
C1_AuthBeforeDispatch ==
  /\ (dispatched # <<>> \/ toolRuns # <<>> \/ idx > 0 \/ pc \in {"parse", "loop", "handle"})
       => (apiKey.present /\ apiKeyResult.valid /\ collabNet = "ok" /\ collabCalls = 1)
  /\ (Done /\ ~(apiKey.present /\ apiKeyResult.valid))
       => (dispatched = <<>> /\ toolRuns = <<>> /\ responses = <<>>)

C1_Witness ==
  /\ Done
  /\ apiKeyResult.valid
  /\ dispatched # <<>>
  /\ toolRuns # <<>>

\* C3: a POST without credential is answered 401 with a JSON-RPC error, id
\* null, code -32001, whatever the body, Accept and session id, and the
\* validation collaborator is never called.
C3_MissingKey ==
  NoCredential(req) =>
    /\ pc \in {"extract", "done"}
    /\ collabCalls = 0
    /\ collabNet = "none"
    /\ ~bodyRead
    /\ Done => /\ http.status = 401
               /\ IsError(-32001)
               /\ http.entries[1].id = JNull

C3_Witness ==
  /\ Done
  /\ NoCredential(req)
  /\ req.authorization.present
  /\ req.body.parse = "ok"
  /\ req.body.isArray
  /\ Includes(req.accept, EventStream)
  /\ req.session # ""
  /\ http.status = 401

\* C4: a key that does not start with 'kntor_' is refused as invalid_format
\* (HTTP 401, code -32002) and no network call to the collaborator is made.
C4_InvalidFormat ==
  (apiKey.present /\ ~StartsWith(apiKey.chars, KntorPrefix) /\ pc # "validate") =>
    /\ Done
    /\ apiKeyResult = Invalid("invalid_format")
    /\ collabCalls = 0
    /\ collabNet = "none"
    /\ http.status = 401
    /\ IsError(-32002)

C4_Witness ==
  /\ Done
  /\ apiKey = Hdr(BadFmt)
  /\ apiKeyResult.error = "invalid_format"

\* C5: the credential is checked before the body is read: a request whose
\* credential is missing or invalid gets the auth error (401 or 500) without
\* the body being read, never -32700 or -32600; -32700 goes with HTTP 400 and
\* only to a request whose credential validated.
C5_AuthBeforeBody ==
  /\ bodyRead => apiKeyResult.valid
  /\ (Done /\ ~apiKeyResult.valid) =>
       /\ http.status \in {401, 500}
       /\ \E c \in AuthCodes : IsError(c)
  /\ (Done /\ IsError(-32700)) => (http.status = 400 /\ apiKeyResult.valid /\ bodyRead)

C5_Witness ==
  /\ Done
  /\ req.body.parse = "fail"
  /\ collabNet = "ok"
  /\ ~apiKeyResult.valid
  /\ http.status = 401

\* C6 as stated: every failure of the call to the collaborator (rejected
\* fetch, non-success status, unparseable body) gives valid = false tagged
\* internal_error or config_error and is reported as -32010 with HTTP 500.
C6_Original ==
  collabNet \in {"reject", "non_ok", "bad_json"} =>
    /\ ~apiKeyResult.valid
    /\ apiKeyResult.error \in {"internal_error", "config_error"}
    /\ Done => (http.status = 500 /\ IsError(-32010))

\* C6 amended: a rejected fetch or an unparseable body gives internal_error,
\* reported as -32010 with HTTP 500; a non-success status gives
\* validation_error, reported as -32003 with HTTP 401; none gives valid = true.
C6_CollabFailure ==
  /\ collabNet \in {"reject", "bad_json"} =>
       /\ apiKeyResult = Invalid("internal_error")
       /\ Done /\ http.status = 500 /\ IsError(-32010)
  /\ collabNet = "non_ok" =>
       /\ apiKeyResult = Invalid("validation_error")
       /\ Done /\ http.status = 401 /\ IsError(-32003)
  /\ collabNet \in {"reject", "non_ok", "bad_json"} =>
       (~bodyRead /\ dispatched = <<>> /\ toolRuns = <<>>)

C6_Witness ==
  /\ Done
  /\ collabNet = "non_ok"
  /\ http.status = 401


\* the indices of the elements of the decoded body that satisfy P
CarryingId   == {i \in 1..Len(req.body.elems) : CarriesId(req.body.elems[i])}
NeedingEntry == {i \in 1..Len(req.body.elems) :
                   CarriesId(req.body.elems[i]) \/ FailsFormatCheck(req.body.elems[i])}

\* C7 as stated: for a batch with a valid credential the number of response
\* entries is the number of elements that carry an id, a malformed element
\* without id included in "contributes no entry".
C7_Original ==
  (McpAnswered /\ req.body.isArray) => Len(http.entries) = Cardinality(CarryingId)

\* C7 amended: the number of response entries of a batch is the number of
\* elements that carry an id or fail the format check; a well-formed element
\* without id contributes no entry, whatever its method, and a malformed
\* element without id is answered by an Invalid Request entry with id null.
C7_BatchCount ==
  (McpAnswered /\ req.body.isArray) =>
    /\ Len(http.entries) = Cardinality(NeedingEntry)
    /\ \A i \in 1..Len(req.body.elems) :
         LET m == req.body.elems[i] IN
           /\ (~CarriesId(m) /\ ~FailsFormatCheck(m)) => i \notin Range(answered)
           /\ (~CarriesId(m) /\ FailsFormatCheck(m)) =>
                \E k \in 1..Len(answered) :
                  /\ answered[k] = i
                  /\ http.entries[k].id = JNull
                  /\ http.entries[k].error.code = -32600

C7_Witness ==
  /\ McpAnswered
  /\ req.body.isArray
  /\ Len(http.entries) = 1
  /\ \E i \in 1..Len(req.body.elems) :
       ~CarriesId(req.body.elems[i]) /\ ~FailsFormatCheck(req.body.elems[i])
  /\ \E i \in 1..Len(req.body.elems) :
       ~CarriesId(req.body.elems[i]) /\ FailsFormatCheck(req.body.elems[i])

\* C8 as stated: entry k of the response answers the k-th id-bearing element
\* of the batch, and the response is assembled after every element.
C8_Original ==
  (McpAnswered /\ req.body.isArray) =>
    /\ EnumeratesInOrder(answered, CarryingId)
    /\ idx = Len(messages)

\* C8 amended: entry k of the response answers the k-th element that carries
\* an id or fails the format check, in input order, with that element's id
\* (null when it has none); the response is assembled only after every
\* element of the batch has been processed.
C8_BatchOrder ==
  (McpAnswered /\ req.body.isArray) =>
    /\ EnumeratesInOrder(answered, NeedingEntry)
    /\ http.entries = responses
    /\ \A k \in 1..Len(http.entries) :
         http.entries[k].id = OrNull(req.body.elems[answered[k]].id)
    /\ idx = Len(req.body.elems)

C8_Witness ==
  /\ McpAnswered
  /\ req.body.isArray
  /\ Len(http.entries) = 2
  /\ http.entries[1].id = JNum(2)
  /\ http.entries[2].id = JNum(1)
  /\ http.entries[1].result.present
  /\ toolRuns # <<>>

\* C9 as stated: a message whose jsonrpc is not "2.0" or whose method is not
\* a non-empty string is never passed to handleMCPMessage and, once
\* processed, is answered with -32600, never -32601.
C9_Original ==
  \A i \in 1..Len(messages) :
    NotWellFormed(messages[i]) =>
      /\ i \notin Range(dispatched)
      /\ \A k \in 1..Len(answered) :
           answered[k] = i => /\ responses[k].error.present
                              /\ responses[k].error.code = -32600

\* C10 as stated: every emitted response has exactly one of result and error
\* and carries the id of the message it answers (null when the failure is not
\* tied to a message), Invalid Request included, on /mcp and on /messages.
C10_Original ==
  /\ \A k \in 1..Len(http.entries) :
       http.entries[k].result.present # http.entries[k].error.present
  /\ \A k \in 1..Len(responses) :
       responses[k].id = OrNull(messages[answered[k]].id)
  /\ (Done /\ req.path = "/messages" /\ bodyRead /\ req.body.parse = "ok"
        /\ http.shape = "object") =>
       http.entries[1].id = OrNull(messages[1].id)

----------------------------------------------------------------------------
(* The data store behind the tool executors (Supabase REST).  A row is a   *)
(* record of the columns the executors filter on or write; every executor  *)
(* uses the service-role key, so the store applies the filters of the      *)
(* request and nothing else.                                               *)

R0 == [table |-> "", id |-> "", brand_id |-> "", customer_id |-> "",
       funnel_id |-> "", stage_id |-> "", expediente_id |-> "", phone |-> "",
       name |-> "", code |-> "", document_number |-> "", position |-> "",
       expediente_estado |-> "", beneficiario_id |-> "", is_default |-> "",
       is_active |-> "", rev |-> 0]

Brands == {"brandA", "brandB"}

\* the rows of one tenant: t is "A" or "B"
TenantRows(t) ==
  LET b == "brand" \o t IN
  { [R0 EXCEPT !.table = "brands", !.id = b, !.brand_id = b],
    [R0 EXCEPT !.table = "customers", !.id = "c" \o t, !.brand_id = b, !.phone = "555"],
    [R0 EXCEPT !.table = "sales_funnels", !.id = "f" \o t, !.brand_id = b,
               !.is_default = "true", !.is_active = "true"],
    [R0 EXCEPT !.table = "funnel_stages", !.id = "lead" \o t, !.brand_id = b,
               !.funnel_id = "f" \o t, !.name = "Lead", !.position = "0",
               !.is_active = "true"],
    [R0 EXCEPT !.table = "funnel_stages", !.id = "won" \o t, !.brand_id = b,
               !.funnel_id = "f" \o t, !.name = "Won", !.position = "1",
               !.is_active = "true"],
    [R0 EXCEPT !.table = "expedientes", !.id = "e" \o t, !.brand_id = b,
               !.customer_id = "c" \o t, !.expediente_estado = "abierto"],
    [R0 EXCEPT !.table = "expediente_servicios", !.id = "s" \o t, !.brand_id = b,
               !.expediente_id = "e" \o t],
    [R0 EXCEPT !.table = "service_types", !.id = "t" \o t, !.brand_id = b,
               !.code = "visa", !.is_active = "true"],
    [R0 EXCEPT !.table = "beneficiarios", !.id = "b" \o t, !.brand_id = b,
               !.document_number = "d1"] }

\* a customer's position in its tenant's funnel, at the Lead stage
PositionRow(t) ==
  [R0 EXCEPT !.table = "customer_funnel_positions", !.id = "p" \o t,
             !.brand_id = "brand" \o t, !.customer_id = "c" \o t,
             !.funnel_id = "f" \o t, !.stage_id = "lead" \o t]

\* a request to the data store: op is select, insert, update, delete or rpc;
\* filters is the set of <<column, accepted values>> of the query string
\* (eq. gives one value, in.(...) several); row is the JSON body
Request(op, table, filters, row) ==
  [op |-> op, table |-> table, filters |-> filters, row |-> row]

Eq(col, v) == <<col, {v}>>

\* the rows a request's query string selects
Matches(q) ==
  {r \in store : /\ r.table = q.table
                 /\ \A f \in q.filters : r[f[1]] \in f[2]}

\* `&limit=1`: at most one of the selected rows comes back
Limit1(rows) == IF rows = {} THEN {{}} ELSE {{r} : r \in rows}

\* the id the data store gives to the next inserted row
NewId == "n" \o ToString(fresh + 1)

\* logUsage(params, env), the log_mcp_usage RPC: the requests it sends for the
\* call c.  create_expediente passes ({context, ...}, env); the other
\* executors pass one object, so `env` is undefined, the TypeError raised
\* while the URL is built is caught inside logUsage and nothing is sent.
LogUsage(c, ok) ==
  IF c.tool = "create_expediente"
  THEN <<Request("rpc", "log_mcp_usage", {},
                 [R0 EXCEPT !.brand_id = c.brandId, !.name = c.tool,
                            !.code = IF ok THEN "success" ELSE "failure"])>>
  ELSE <<>>

\* the executor returns its ToolResult
Return(c, ok) ==
  /\ tpc' = "returned"
  /\ call' = [c EXCEPT !.success = ok]

\* a request is sent; `rows` are the rows it read or modified
Sent(qs, rows) ==
  /\ queries' = queries \o qs
  /\ touched' = touched \cup rows

\* a step of an executor leaves the HTTP side alone
ToolStep(label) ==
  /\ tpc = label
  /\ UNCHANGED <<httpVars, ncalls, stream, prior, proxy>>

----------------------------------------------------------------------------
(* The tool executors, one action per request awaited *)

\* the tool calls made: context.brandId and the validated input
UpdateFunnelStageCalls ==
  {[NoCall EXCEPT !.tool = "update_funnel_stage", !.brandId = b,
                  !.customer_id = c, !.stage_name = n] :
     b \in Brands, c \in {"cA", "cB"}, n \in {"Lead", "Won", "Nope"}}

IdentifyCustomerCalls ==
  {[NoCall EXCEPT !.tool = "identify_customer", !.brandId = b, !.phone = ph] :
     b \in Brands, ph \in {"", "555", "000"}}

ManageExpedienteServicesCalls ==
  {[NoCall EXCEPT !.tool = "manage_expediente_services", !.brandId = b,
                  !.action = a, !.expediente_id = e] :
     b \in Brands, a \in {"list", "list_types", "bogus"}, e \in {"", "eA", "eB"}}
  \cup
  {[NoCall EXCEPT !.tool = "manage_expediente_services", !.brandId = b,
                  !.action = "add", !.expediente_id = e, !.service_name = n] :
     b \in Brands, e \in {"", "eA", "eB"}, n \in {"", "hotel"}}
  \cup
  {[NoCall EXCEPT !.tool = "manage_expediente_services", !.brandId = b,
                  !.action = a, !.service_id = sv, !.priced = pr] :
     b \in Brands, a \in {"update", "remove"}, sv \in {"", "sA", "sB"},
     pr \in BOOLEAN}

CreateExpedienteCalls ==
  {[NoCall EXCEPT !.tool = "create_expediente", !.brandId = b,
                  !.customer_id = "cA", !.start_date = d,
                  !.service_type_code = t, !.document_number = n] :
     b \in Brands, d \in {"2026-01-01", "soon"}, t \in {"", "visa"},
     n \in {"", "d1", "d2"}}

CreateCustomerCalls ==
  {[NoCall EXCEPT !.tool = "create_customer", !.brandId = b,
                  !.first_name = n, !.phone = "777"] :
     b \in Brands, n \in {"", "Ana"}}

SearchCustomersCalls ==
  {[NoCall EXCEPT !.tool = "search_customers", !.brandId = b, !.query = q] :
     b \in Brands, q \in {"", "555"}}

ToolCalls ==
  UpdateFunnelStageCalls \cup IdentifyCustomerCalls
    \cup ManageExpedienteServicesCalls \cup CreateExpedienteCalls
    \cup CreateCustomerCalls \cup SearchCustomersCalls

\* the first request an executor awaits; "returned" when its input checks
\* fail before any request (manage_expediente_services still logs usage)
FirstAwait(c) ==
  CASE c.tool = "update_funnel_stage" -> "ufs:position"
    [] c.tool = "identify_customer" ->
         IF c.phone = "" THEN "returned" ELSE "ic:customer"
    [] c.tool = "manage_expediente_services" ->
         CASE c.action = "list_types" -> "mes:list_types"
           [] c.action = "list" ->
                IF c.expediente_id = "" THEN "mes:log" ELSE "mes:list"
           [] c.action = "add" ->
                IF c.expediente_id = "" \/ c.service_name = ""
                THEN "mes:log" ELSE "mes:sort"
           [] c.action = "update" ->
                IF c.service_id = "" THEN "mes:log"
                ELSE IF c.priced THEN "mes:current" ELSE "mes:patch"
           [] c.action = "remove" ->
                IF c.service_id = "" THEN "mes:log" ELSE "mes:remove"
           [] OTHER -> "mes:log"
    [] c.tool = "create_expediente" ->
         IF c.start_date = "soon" THEN "returned" ELSE "ce:brand"
    [] c.tool = "create_customer" ->
         IF c.first_name = "" THEN "returned" ELSE "cc:insert"
    [] OTHER -> "sc:search"

ToolRequest ==
  [path |-> "/mcp", method |-> "POST", xApiKey |-> Hdr(KeyA),
   authorization |-> NoHeader, accept |-> <<>>, session |-> "",
   body |-> [parse |-> "fail", isArray |-> FALSE, elems |-> <<>>]]

InitTools ==
  /\ pc = "tool"
  /\ req = ToolRequest
  /\ apiKey = NoHeader
  /\ apiKeyResult = NoResult
  /\ collabCalls = 0
  /\ collabNet = "none"
  /\ bodyRead = FALSE
  /\ messages = <<>>
  /\ idx = 0
  /\ responses = <<>>
  /\ answered = <<>>
  /\ dispatched = <<>>
  /\ toolRuns = <<>>
  /\ http = NoHttp
  /\ stream = NoStream
  /\ prior = NoPrior
  /\ proxy = NoProxy
  /\ tpc = "idle"
  /\ call = NoCall
  /\ \E inFunnel \in SUBSET {"A", "B"} :
       store = TenantRows("A") \cup TenantRows("B")
                 \cup {PositionRow(t) : t \in inFunnel}
  /\ queries = <<>>
  /\ touched = {}
  /\ ncalls = 0
  /\ fresh = 0

\* executeTool calls the executor with the context of the validated key
ToolCall ==
  /\ tpc \in {"idle", "returned"}
  /\ ncalls < MaxCalls
  /\ \E c \in ToolCalls :
       /\ tpc' = FirstAwait(c)
       /\ call' = c
  /\ queries' = <<>>
  /\ touched' = {}
  /\ ncalls' = ncalls + 1
  /\ UNCHANGED <<httpVars, store, fresh, stream, prior, proxy>>

\* the one row of a `limit=1` answer
Only(rows) == CHOOSE r \in rows : TRUE

\* the rows embedded in a select through a foreign key: table(columns)
Embedded(table, ids) == {r \in store : r.table = table /\ r.id \in ids}

\* funnel_stages?funnel_id=eq.<funnelId>&name=ilike.<stage_name>&is_active=eq.true
StageByName(funnelId, name) ==
  Request("select", "funnel_stages",
          {Eq("funnel_id", funnelId), Eq("name", name), Eq("is_active", "true")}, R0)

\* update_funnel_stage, step 1: the customer's current funnel position
UfsPosition ==
  /\ ToolStep("ufs:position")
  /\ \E ok \in BOOLEAN :
       LET q == Request("select", "customer_funnel_positions",
                        {Eq("customer_id", call.customer_id)}, R0)
       IN IF ~ok
          THEN Sent(<<q>>, {}) /\ Return(call, FALSE)
          ELSE \E rows \in Limit1(Matches(q)) :
                 /\ Sent(<<q>>, rows \cup Embedded("funnel_stages",
                                                   {r.stage_id : r \in rows}))
                 /\ IF rows = {}
                    THEN tpc' = "ufs:funnel" /\ call' = call
                    ELSE /\ tpc' = "ufs:stage"
                         /\ call' = [call EXCEPT !.funnelId = Only(rows).funnel_id,
                                                 !.positionId = Only(rows).id,
                                                 !.currentStageId = Only(rows).stage_id]
  /\ UNCHANGED <<store, fresh>>

\* customer not in a funnel: the brand's default funnel
UfsFunnel ==
  /\ ToolStep("ufs:funnel")
  /\ \E ok \in BOOLEAN :
       LET q == Request("select", "sales_funnels",
                        {Eq("brand_id", call.brandId), Eq("is_default", "true"),
                         Eq("is_active", "true")}, R0)
       IN IF ~ok
          THEN Sent(<<q>>, {}) /\ Return(call, FALSE)
          ELSE \E rows \in Limit1(Matches(q)) :
                 /\ Sent(<<q>>, rows)
                 /\ IF rows = {}
                    THEN Return(call, FALSE)
                    ELSE /\ tpc' = "ufs:newStage"
                         /\ call' = [call EXCEPT !.funnelId = Only(rows).id]
  /\ UNCHANGED <<store, fresh>>

\* customer not in a funnel: the target stage of the default funnel
UfsNewStage ==
  /\ ToolStep("ufs:newStage")
  /\ \E ok \in BOOLEAN :
       LET q == StageByName(call.funnelId, call.stage_name)
       IN IF ~ok
          THEN Sent(<<q>>, {}) /\ Return(call, FALSE)
          ELSE \E rows \in Limit1(Matches(q)) :
                 /\ Sent(<<q>>, rows)
                 /\ IF rows = {}
                    THEN Return(call, FALSE)
                    ELSE /\ tpc' = "ufs:add"
                         /\ call' = [call EXCEPT !.targetStageId = Only(rows).id]
  /\ UNCHANGED <<store, fresh>>

\* customer not in a funnel: the add_customer_to_funnel RPC, then logUsage
UfsAdd ==
  /\ ToolStep("ufs:add")
  /\ \E ok \in BOOLEAN :
       LET q == Request("rpc", "add_customer_to_funnel", {},
                        [R0 EXCEPT !.customer_id = call.customer_id,
                                   !.funnel_id = call.funnelId,
                                   !.stage_id = call.targetStageId])
       IN /\ Sent(IF ok THEN <<q>> \o LogUsage(call, TRUE) ELSE <<q>>, {})
          /\ Return(call, ok)
  /\ UNCHANGED <<store, fresh>>

\* customer in a funnel: the target stage in the funnel of the position
UfsStage ==
  /\ ToolStep("ufs:stage")
  /\ \E ok \in BOOLEAN :
       LET q == StageByName(call.funnelId, call.stage_name)
       IN IF ~ok
          THEN Sent(<<q>>, {}) /\ Return(call, FALSE)
          ELSE \E rows \in Limit1(Matches(q)) :
                 /\ Sent(<<q>>, rows)
                 /\ IF rows = {}
                    THEN Return(call, FALSE)
                    ELSE IF call.currentStageId = Only(rows).id
                    THEN Return(call, TRUE)
                    ELSE /\ tpc' = "ufs:move"
                         /\ call' = [call EXCEPT !.targetStageId = Only(rows).id]
  /\ UNCHANGED <<store, fresh>>

\* customer in a funnel: the move_customer_in_funnel RPC on the position
\* row read in step 1, then logUsage.  ok: the response is ok and reports
\* success.  The stored procedure is not part of the repository: the
\* request is recorded, the store is left as it is.
UfsMove ==
  /\ ToolStep("ufs:move")
  /\ \E ok \in BOOLEAN :
       LET q == Request("rpc", "move_customer_in_funnel", {},
                        [R0 EXCEPT !.id = call.positionId,
                                   !.stage_id = call.targetStageId])
       IN /\ Sent(IF ok THEN <<q>> \o LogUsage(call, TRUE) ELSE <<q>>, {})
          /\ Return(call, ok)
  /\ UNCHANGED <<store, fresh>>

\* identify_customer: the customer of the brand with this phone, then logUsage
IcCustomer ==
  /\ ToolStep("ic:customer")
  /\ \E ok \in BOOLEAN :
       LET q == Request("select", "customers",
                        {Eq("brand_id", call.brandId), Eq("phone", call.phone)}, R0)
       IN IF ~ok
          THEN Sent(<<q>>, {}) /\ Return(call, FALSE)
          ELSE \E rows \in Limit1(Matches(q)) :
                 /\ Sent(<<q>> \o LogUsage(call, TRUE), rows)
                 /\ IF rows = {}
                    THEN Return(call, TRUE)
                    ELSE /\ tpc' = "ic:context"
                         /\ call' = [call EXCEPT !.rowId = Only(rows).id]
  /\ UNCHANGED <<store, fresh>>

\* identify_customer: funnel position and open expedientes, in parallel
IcContext ==
  /\ ToolStep("ic:context")
  /\ \E okFunnel \in BOOLEAN, okExpedientes \in BOOLEAN :
       LET qf == Request("select", "customer_funnel_positions",
                         {Eq("customer_id", call.rowId)}, R0)
           qe == Request("select", "expedientes",
                         {Eq("customer_id", call.rowId),
                          <<"expediente_estado", {"activo", "pendiente", "en_progreso"}>>},
                         R0)
       IN \E rows \in Limit1(Matches(qf)) :
            Sent(<<qf, qe>>,
                 (IF okFunnel
                  THEN rows \cup Embedded("funnel_stages", {r.stage_id : r \in rows})
                            \cup Embedded("sales_funnels", {r.funnel_id : r \in rows})
                  ELSE {})
                 \cup (IF okExpedientes THEN Matches(qe) ELSE {}))
  /\ Return(call, TRUE)
  /\ UNCHANGED <<store, fresh>>

\* the data store inserts a row and gives it an id
Insert(row) ==
  /\ store' = store \cup {[row EXCEPT !.id = NewId]}
  /\ fresh' = fresh + 1

\* manage_expediente_services continues to its logUsage with this result
MesResult(ok) ==
  /\ tpc' = "mes:log"
  /\ call' = [call EXCEPT !.success = ok]

\* listServiceTypes
MesListTypes ==
  /\ ToolStep("mes:list_types")
  /\ \E ok \in BOOLEAN :
       LET q == Request("select", "service_types",
                        {Eq("brand_id", call.brandId), Eq("is_active", "true")}, R0)
       IN Sent(<<q>>, IF ok THEN Matches(q) ELSE {}) /\ MesResult(ok)
  /\ UNCHANGED <<store, fresh>>

\* listServices
MesList ==
  /\ ToolStep("mes:list")
  /\ \E ok \in BOOLEAN :
       LET q == Request("select", "expediente_servicios",
                        {Eq("expediente_id", call.expediente_id),
                         Eq("brand_id", call.brandId)}, R0)
       IN Sent(<<q>>, IF ok THEN Matches(q) ELSE {}) /\ MesResult(ok)
  /\ UNCHANGED <<store, fresh>>

\* addService: the highest sort_order of the expediente (its error is ignored)
MesSort ==
  /\ ToolStep("mes:sort")
  /\ \E ok \in BOOLEAN :
       LET q == Request("select", "expediente_servicios",
                        {Eq("expediente_id", call.expediente_id)}, R0)
       IN \E rows \in Limit1(Matches(q)) : Sent(<<q>>, IF ok THEN rows ELSE {})
  /\ tpc' = "mes:insert"
  /\ UNCHANGED <<call, store, fresh>>

\* addService: the insert
MesInsert ==
  /\ ToolStep("mes:insert")
  /\ \E ok \in BOOLEAN :
       LET row == [R0 EXCEPT !.table = "expediente_servicios",
                             !.brand_id = call.brandId,
                             !.expediente_id = call.expediente_id,
                             !.name = call.service_name]
       IN /\ Sent(<<Request("insert", "expediente_servicios", {}, row)>>, {})
          /\ IF ok THEN Insert(row) ELSE UNCHANGED <<store, fresh>>
          /\ MesResult(ok)

\* updateService: the current price and quantity (its error is ignored)
MesCurrent ==
  /\ ToolStep("mes:current")
  /\ \E ok \in BOOLEAN :
       LET q == Request("select", "expediente_servicios",
                        {Eq("id", call.service_id)}, R0)
       IN \E rows \in Limit1(Matches(q)) : Sent(<<q>>, IF ok THEN rows ELSE {})
  /\ tpc' = "mes:patch"
  /\ UNCHANGED <<call, store, fresh>>

\* updateService: the PATCH
MesPatch ==
  /\ ToolStep("mes:patch")
  /\ \E ok \in BOOLEAN :
       LET q == Request("update", "expediente_servicios",
                        {Eq("id", call.service_id), Eq("brand_id", call.brandId)}, R0)
       IN /\ Sent(<<q>>, IF ok THEN Matches(q) ELSE {})
          /\ store' = IF ok
                      THEN (store \ Matches(q))
                             \cup {[r EXCEPT !.rev = r.rev + 1] : r \in Matches(q)}
                      ELSE store
          /\ MesResult(ok)
  /\ UNCHANGED fresh

\* removeService
MesRemove ==
  /\ ToolStep("mes:remove")
  /\ \E ok \in BOOLEAN :
       LET q == Request("delete", "expediente_servicios",
                        {Eq("id", call.service_id), Eq("brand_id", call.brandId)}, R0)
       IN /\ Sent(<<q>>, IF ok THEN Matches(q) ELSE {})
          /\ store' = IF ok THEN store \ Matches(q) ELSE store
          /\ MesResult(ok)
  /\ UNCHANGED fresh

\* executeManageExpedienteServices: logUsage with the result's success
MesLog ==
  /\ ToolStep("mes:log")
  /\ Sent(LogUsage(call, call.success), {})
  /\ Return(call, call.success)
  /\ UNCHANGED <<store, fresh>>

\* create_expediente: getBrandIndustryType (any failure gives 'other')
CeBrand ==
  /\ ToolStep("ce:brand")
  /\ \E ok \in BOOLEAN :
       LET q == Request("select", "brands", {Eq("id", call.brandId)}, R0)
       IN \E rows \in Limit1(Matches(q)) : Sent(<<q>>, IF ok THEN rows ELSE {})
  /\ tpc' = "ce:insert"
  /\ UNCHANGED <<call, store, fresh>>

\* what executeCreateExpediente does after the service: the beneficiary of
\* the input, if any, then logUsage
CeAfterService(c) == IF c.document_number # "" THEN "ce:benef" ELSE "ce:log"

\* create_expediente: the expediente is inserted in state 'abierto'
CeInsert ==
  /\ ToolStep("ce:insert")
  /\ \E ok \in BOOLEAN :
       LET row == [R0 EXCEPT !.table = "expedientes", !.brand_id = call.brandId,
                             !.customer_id = call.customer_id,
                             !.expediente_estado = "abierto"]
       IN /\ Sent(<<Request("insert", "expedientes", {}, row)>>, {})
          /\ IF ~ok
             THEN Return(call, FALSE) /\ UNCHANGED <<store, fresh>>
             ELSE /\ Insert(row)
                  /\ call' = [call EXCEPT !.rowId = NewId]
                  /\ tpc' = IF call.service_type_code # "" THEN "ce:stype"
                            ELSE CeAfterService(call)

\* create_expediente: findServiceTypeByCode (any failure gives null)
CeServiceType ==
  /\ ToolStep("ce:stype")
  /\ \E ok \in BOOLEAN :
       LET q == Request("select", "service_types",
                        {Eq("brand_id", call.brandId),
                         Eq("code", call.service_type_code),
                         Eq("is_active", "true")}, R0)
       IN \E rows \in Limit1(Matches(q)) :
            /\ Sent(<<q>>, IF ok THEN rows ELSE {})
            /\ call' = [call EXCEPT !.serviceTypeId =
                          IF ok /\ rows # {} THEN Only(rows).id ELSE ""]
  /\ tpc' = "ce:service"
  /\ UNCHANGED <<store, fresh>>

\* create_expediente: createService (any failure gives null)
CeService ==
  /\ ToolStep("ce:service")
  /\ \E ok \in BOOLEAN :
       LET row == [R0 EXCEPT !.table = "expediente_servicios",
                             !.brand_id = call.brandId,
                             !.expediente_id = call.rowId,
                             !.name = "Servicio"]
       IN /\ Sent(<<Request("insert", "expediente_servicios", {}, row)>>, {})
          /\ IF ok THEN Insert(row) ELSE UNCHANGED <<store, fresh>>
  /\ tpc' = CeAfterService(call)
  /\ UNCHANGED call

\* create_expediente: createOrFindBeneficiary, the lookup by document number
CeBeneficiary ==
  /\ ToolStep("ce:benef")
  /\ \E ok \in BOOLEAN :
       LET q == Request("select", "beneficiarios",
                        {Eq("brand_id", call.brandId),
                         Eq("document_number", call.document_number)}, R0)
       IN \E rows \in Limit1(Matches(q)) :
            /\ Sent(<<q>>, IF ok THEN rows ELSE {})
            /\ IF ok /\ rows # {}
               THEN /\ tpc' = "ce:link"
                    /\ call' = [call EXCEPT !.beneficiaryId = Only(rows).id]
               ELSE tpc' = "ce:benefInsert" /\ call' = call
  /\ UNCHANGED <<store, fresh>>

\* create_expediente: createOrFindBeneficiary, the insert (failure gives null)
CeBeneficiaryInsert ==
  /\ ToolStep("ce:benefInsert")
  /\ \E ok \in BOOLEAN :
       LET row == [R0 EXCEPT !.table = "beneficiarios", !.brand_id = call.brandId,
                             !.document_number = call.document_number]
       IN /\ Sent(<<Request("insert", "beneficiarios", {}, row)>>, {})
          /\ IF ok
             THEN /\ Insert(row)
                  /\ call' = [call EXCEPT !.beneficiaryId = NewId]
                  /\ tpc' = "ce:link"
             ELSE tpc' = "ce:log" /\ UNCHANGED <<call, store, fresh>>

\* create_expediente: linkBeneficiaryToExpediente
CeLink ==
  /\ ToolStep("ce:link")
  /\ \E ok \in BOOLEAN :
       LET row == [R0 EXCEPT !.table = "expediente_beneficiarios",
                             !.brand_id = call.brandId,
                             !.expediente_id = call.rowId,
                             !.beneficiario_id = call.beneficiaryId]
       IN /\ Sent(<<Request("insert", "expediente_beneficiarios", {}, row)>>, {})
          /\ IF ok THEN Insert(row) ELSE UNCHANGED <<store, fresh>>
  /\ tpc' = "ce:log"
  /\ UNCHANGED call

\* create_expediente: `await logUsage(...)`, the usage event is sent
CeLog ==
  /\ ToolStep("ce:log")
  /\ Sent(LogUsage(call, TRUE), {})
  /\ tpc' = "ce:logging"
  /\ UNCHANGED <<call, store, fresh>>

\* create_expediente: the usage collaborator answers (ok: with a success
\* status; logUsage swallows the other cases), logUsage resolves and the
\* executor returns its result
CeLogged ==
  /\ ToolStep("ce:logging")
  /\ \E ok \in BOOLEAN : Return(call, TRUE)
  /\ UNCHANGED <<store, queries, touched, fresh>>

\* create_customer: the customer is inserted
CcInsert ==
  /\ ToolStep("cc:insert")
  /\ \E ok \in BOOLEAN :
       LET row == [R0 EXCEPT !.table = "customers", !.brand_id = call.brandId,
                             !.phone = call.phone, !.name = call.first_name]
       IN /\ Sent(<<Request("insert", "customers", {}, row)>>, {})
          /\ IF ~ok
             THEN Return(call, FALSE) /\ UNCHANGED <<store, fresh>>
             ELSE /\ Insert(row)
                  /\ call' = [call EXCEPT !.rowId = NewId]
                  /\ tpc' = "cc:funnel"

\* create_customer: the brand's default funnel
CcFunnel ==
  /\ ToolStep("cc:funnel")
  /\ \E ok \in BOOLEAN :
       LET q == Request("select", "sales_funnels",
                        {Eq("brand_id", call.brandId), Eq("is_default", "true")}, R0)
       IN \E rows \in Limit1(Matches(q)) :
            /\ Sent(<<q>>, IF ok THEN rows ELSE {})
            /\ IF ok /\ rows # {}
               THEN /\ tpc' = "cc:stage"
                    /\ call' = [call EXCEPT !.funnelId = Only(rows).id]
               ELSE tpc' = "cc:log" /\ call' = call
  /\ UNCHANGED <<store, fresh>>

\* create_customer: the first stage (position 0) of the funnel
CcStage ==
  /\ ToolStep("cc:stage")
  /\ \E ok \in BOOLEAN :
       LET q == Request("select", "funnel_stages",
                        {Eq("funnel_id", call.funnelId), Eq("position", "0")}, R0)
       IN \E rows \in Limit1(Matches(q)) :
            /\ Sent(<<q>>, IF ok THEN rows ELSE {})
            /\ IF ok /\ rows # {}
               THEN /\ tpc' = "cc:add"
                    /\ call' = [call EXCEPT !.targetStageId = Only(rows).id]
               ELSE tpc' = "cc:log" /\ call' = call
  /\ UNCHANGED <<store, fresh>>

\* create_customer: the add_customer_to_funnel RPC (its failure is reported
\* in the result, which stays a success)
CcAdd ==
  /\ ToolStep("cc:add")
  /\ Sent(<<Request("rpc", "add_customer_to_funnel", {},
                    [R0 EXCEPT !.customer_id = call.rowId,
                               !.funnel_id = call.funnelId,
                               !.stage_id = call.targetStageId])>>, {})
  /\ tpc' = "cc:log"
  /\ UNCHANGED <<call, store, fresh>>

\* create_customer: logUsage and the result
CcLog ==
  /\ ToolStep("cc:log")
  /\ Sent(LogUsage(call, TRUE), {})
  /\ Return(call, TRUE)
  /\ UNCHANGED <<store, fresh>>

\* search_customers: one query scoped to the brand, then logUsage
ScSearch ==
  /\ ToolStep("sc:search")
  /\ \E ok \in BOOLEAN :
       LET q == Request("select", "customers",
                        {Eq("brand_id", call.brandId)}
                          \cup (IF call.query # "" THEN {Eq("phone", call.query)}
                                ELSE {}), R0)
       IN /\ Sent(IF ok THEN <<q>> \o LogUsage(call, TRUE) ELSE <<q>>,
                  IF ok THEN Matches(q) ELSE {})
          /\ Return(call, ok)
  /\ UNCHANGED <<store, fresh>>

\* every step but the answer of the usage collaborator
NextToolsButMetering ==
  \/ ToolCall
  \/ UfsPosition \/ UfsFunnel \/ UfsNewStage \/ UfsAdd \/ UfsStage \/ UfsMove
  \/ IcCustomer \/ IcContext
  \/ MesListTypes \/ MesList \/ MesSort \/ MesInsert \/ MesCurrent \/ MesPatch
  \/ MesRemove \/ MesLog
  \/ CeBrand \/ CeInsert \/ CeServiceType \/ CeService \/ CeBeneficiary
  \/ CeBeneficiaryInsert \/ CeLink \/ CeLog
  \/ CcInsert \/ CcFunnel \/ CcStage \/ CcAdd \/ CcLog
  \/ ScSearch

NextTools == NextToolsButMetering \/ CeLogged

SpecTools == InitTools /\ [][NextTools]_vars

\* the executors and the data store make progress; nothing is assumed of
\* the usage collaborator
SpecToolsLive == SpecTools /\ WF_vars(NextToolsButMetering)

----------------------------------------------------------------------------
(* Tenant isolation of the tool executors *)

\* the request carries `brand_id=eq.<b>`; the brands table is keyed by the
\* brand's id
Scoped(q, b) ==
  \/ Eq("brand_id", b) \in q.filters
  \/ q.table = "brands" /\ Eq("id", b) \in q.filters

\* every select, update and delete sent by the current call is scoped to the
\* context's brand, and every insert carries it
EveryRequestScoped ==
  \A i \in 1..Len(queries) :
    /\ queries[i].op \in {"select", "update", "delete"} =>
         Scoped(queries[i], call.brandId)
    /\ queries[i].op = "insert" => queries[i].row.brand_id = call.brandId

\* no row of another tenant was read or modified by the current call
NoForeignRow == \A r \in touched : r.brand_id = call.brandId

\* C2 as stated: every request of a tool executor that reads, updates or
\* deletes rows carries a brand_id filter equal to the context's brandId,
\* every insert carries that brand_id, and no row of another tenant is read
\* or modified.
C2_Original == EveryRequestScoped /\ NoForeignRow

----------------------------------------------------------------------------
(* Tool calls seen from the transport *)

\* the indices of the messages passed to handleMCPMessage that are tools/call
\* messages reaching executeTool
ToolCallsDispatched ==
  {i \in Range(dispatched) : CallsExecuteTool(messages[i], apiKeyResult)}

\* the responses handleMCPMessage can give to m, over the executor's outcomes
Answers(m) ==
  {handleMCPMessage(m, apiKeyResult, exec) : exec \in OutcomesOf(m, apiKeyResult)}

UnknownTool == [success |-> FALSE, error |-> "Unknown tool", fault |-> FALSE]

\* C12 as stated: a tool name that is not a registered tool gets the
\* 'Unknown tool' failure and runs nothing; the names for which a function is
\* run as executor are registered tool names only.
C12_Original ==
  /\ \A k \in 1..Len(toolRuns) : toolRuns[k].name \in toolExecutors
  /\ \A i \in ToolCallsDispatched :
       messages[i].pname.s \notin toolExecutors =>
         \A exec \in OutcomesOf(messages[i], apiKeyResult) :
           executeTool(messages[i].pname.s, exec) = UnknownTool

\* the authenticated context has remaining_calls defined and <= 0
QuotaExhausted ==
  /\ apiKeyResult.valid
  /\ apiKeyResult.remaining_calls.defined
  /\ apiKeyResult.remaining_calls.n <= 0

\* the code of the error answering message i in every entry that answers it
AnsweredWith(i, code) ==
  \A k \in 1..Len(answered) :
    answered[k] = i => /\ responses[k].error.present
                       /\ ~responses[k].result.present
                       /\ responses[k].error.code = code

\* C13 as stated: with remaining_calls defined and <= 0, every tools/call
\* message is answered with -32006 and no executor and no data-store call is
\* invoked.
C13_Original ==
  QuotaExhausted =>
    /\ toolRuns = <<>> /\ queries = <<>>
    /\ \A i \in Range(dispatched) :
         messages[i].method = JStr("tools/call") => AnsweredWith(i, -32006)

\* C13: with remaining_calls defined and <= 0, no executor and no data-store
\* call is invoked; a tools/call that names a tool is answered with -32006,
\* and a tools/call without a tool name is answered with -32602, the check of
\* the name coming first.
C13_RateLimit ==
  QuotaExhausted =>
    /\ toolRuns = <<>> /\ queries = <<>>
    /\ \A i \in Range(dispatched) :
         messages[i].method = JStr("tools/call") =>
           IF Truthy(messages[i].pname)
           THEN AnsweredWith(i, -32006)
           ELSE AnsweredWith(i, -32602)

C13_Witness ==
  /\ Done
  /\ QuotaExhausted
  /\ \E k \in 1..Len(answered) :
       /\ messages[answered[k]].method = JStr("tools/call")
       /\ messages[answered[k]].pname.s \in toolExecutors
       /\ http.entries[k].error.code = -32006

----------------------------------------------------------------------------
(* The protocol handler over a sequence of calls.  `messages` is the       *)
(* sequence of messages handled so far by one server instance, `responses` *)
(* what each was answered, apiKeyResult the context of the latest call.    *)

\* the methods of handleMCPMessage's switch, and one it does not know
Methods ==
  {"initialize", "initialized", "notifications/initialized", "tools/list",
   "resources/list", "resources/read", "prompts/list", "prompts/get", "ping",
   "foo/bar"}

\* the methods whose answer depends on nothing but the id
StatelessMethods == {"initialize", "ping", "tools/list", "resources/list", "prompts/list"}

HandlerMessages ==
  {Msg(V2, JNum(1), JStr(meth), Undefined) : meth \in Methods}
  \cup {Msg(V2, i, JStr(meth), Undefined) :
          i \in {Undefined, JStr("a")}, meth \in StatelessMethods}
  \cup {Msg(V2, JNum(2), JStr("tools/call"), n) :
          n \in {Undefined, JStr("get_availability"), JStr("nonexistent_tool")}}

\* the contexts validateApiKey can hand to the handler
AuthContexts ==
  {[valid |-> TRUE, error |-> "", brand_id |-> BrandOf(KeyA), remaining_calls |-> q] :
     q \in QuotaVals}

\* the call of handleMCPMessage rejected
Rejected == [jsonrpc |-> "", id |-> JNull, result |-> NoField, error |-> NoField]

InitHandler ==
  /\ pc = "handler"
  /\ req = ToolRequest
  /\ apiKey = NoHeader
  /\ apiKeyResult = NoResult
  /\ collabCalls = 0
  /\ collabNet = "none"
  /\ bodyRead = FALSE
  /\ messages = <<>>
  /\ idx = 0
  /\ responses = <<>>
  /\ answered = <<>>
  /\ dispatched = <<>>
  /\ toolRuns = <<>>
  /\ http = NoHttp
  /\ ToolsIdle

\* one call handleMCPMessage(message, apiKeyResult, env)
HandleCall ==
  /\ pc = "handler"
  /\ Len(messages) < MaxHandled
  /\ \E m \in HandlerMessages, r \in AuthContexts :
       /\ messages' = Append(messages, m)
       /\ apiKeyResult' = r
       /\ dispatched' = Append(dispatched, Len(messages) + 1)
       /\ \E exec \in OutcomesOf(m, r) :
            /\ toolRuns' = IF StartsExecutor(m, r)
                           THEN Append(toolRuns, Run(m, r, exec))
                           ELSE toolRuns
            /\ responses' = Append(responses,
                                   IF Faults(m, r, exec) THEN Rejected
                                   ELSE handleMCPMessage(m, r, exec))
  /\ answered' = Append(answered, Len(messages) + 1)
  /\ idx' = idx + 1
  /\ UNCHANGED <<pc, req, apiKey, collabCalls, collabNet, bodyRead, http>>
  /\ UNCHANGED <<toolVars, stream, prior, proxy>>

NextHandler == HandleCall

SpecHandler == InitHandler /\ [][NextHandler]_vars

\* what a server that has handled nothing answers to a message of a
\* stateless method
FreshAnswer(m) ==
  jsonRPCSuccess(OrNull(m.id),
                 CASE m.method = JStr("initialize")     -> "initialize"
                   [] m.method = JStr("tools/list")     -> "tools"
                   [] m.method = JStr("resources/list") -> "resources"
                   [] m.method = JStr("prompts/list")   -> "prompts"
                   [] OTHER                             -> "empty")

IsStateless(m) == m.method.t = "string" /\ m.method.s \in StatelessMethods

\* C14: whatever was handled before (tool calls, notifications, failed
\* requests) and whatever the context, initialize, ping, tools/list,
\* resources/list and prompts/list get the answer a fresh server gives to
\* the same message.
C14_Stateless ==
  \A k \in 1..Len(messages) :
    IsStateless(messages[k]) => responses[k] = FreshAnswer(messages[k])

C14_Witness ==
  /\ Len(messages) = 3
  /\ toolRuns # <<>>
  /\ messages[1].method = JStr("tools/list")
  /\ messages[2].method = JStr("tools/call")
  /\ messages[3] = messages[1]
  /\ responses[3] = responses[1]

----------------------------------------------------------------------------
(* Usage metering of the tool executors *)

\* the usage events the current call has sent to the usage collaborator
UsageEvents == {i \in 1..Len(queries) : queries[i].table = "log_mcp_usage"}

\* C15 as stated: an executor that has returned (success or failure) has
\* sent exactly one usage event, never zero and never two.
C15_Original == tpc = "returned" => Cardinality(UsageEvents) = 1

\* C16 as stated: metering is fire-and-forget, so an executor that has
\* reached its metering call returns its ToolResult even when the metering
\* call never completes.
C16_Original == (tpc = "ce:log") ~> (tpc = "returned")

----------------------------------------------------------------------------
(* Faults of the request *)

C18_Original ==
  Done =>
    /\ http.shape \in {"object", "array", "frames"}
    /\ http.shape = "frames" => http.entries # <<>>

----------------------------------------------------------------------------
(* The fetch handler, GET /mcp and GET /sse: event streams.  A stream is the
   TransformStream of the response: its frames are the chunks written to it,
   `interval` is the pending setInterval, `timer` the pending setTimeout and
   `elapsed` the number of keep-alive periods that have passed since both
   were set. *)

\* the period of setInterval, in milliseconds
PingIntervalMs == 30000

\* the delay of setTimeout, in milliseconds
MaxDurationMs == 5 * 60 * 1000

GetRequests ==
  [path          : {"/mcp", "/sse"},
   method        : {"GET"},
   xApiKey       : {NoHeader, Hdr(<<>>), Hdr(KeyA), Hdr(BadFmt)},
   authorization : {NoHeader, Hdr(BearerSpace \o KeyA), Hdr(BearerSpace \o BadFmt), Hdr(KeyA)},
   accept        : AcceptVals,
   session       : SessionVals,
   body          : {[parse |-> "fail", isArray |-> FALSE, elems |-> <<>>]}]

\* `acceptHeader.includes('text/event-stream')` on GET /mcp
IsStreamingGet(r) == r.path = "/mcp" /\ r.method = "GET" /\ Includes(r.accept, EventStream)

\* mutant of GetAuthFailed: only a malformed key is turned away
GetAuthFailed_formatOnly(r) == r.error = "invalid_format"

\* `if (!apiKeyResult.valid)` of the streaming GET
GetAuthFailed(r) == ~r.valid

\* new Response(readable, {headers: {'Content-Type': 'text/event-stream', ...}})
StreamResponse(sessionHeader) ==
  [status |-> 200, ctype |-> EventStream, shape |-> "stream", entries |-> <<>>,
   session |-> sessionHeader]

\* the server-info answer of a GET /mcp that does not accept an event stream
ServerInfo ==
  [status |-> 200, ctype |-> "application/json", shape |-> "info", entries |-> <<>>,
   session |-> ""]

\* crypto.randomUUID(), new TransformStream(), and the first write is issued
OpenStream(id) ==
  [state |-> "open", sessionId |-> id, frames |-> <<>>,
   interval |-> FALSE, timer |-> FALSE, elapsed |-> 0,
   failedAt |-> -1, late |-> FALSE]

\* a comment frame, `: text\n\n`
Comment(text) == [event |-> "", data |-> text]

\* mutant of MessagesUrl: the URL does not carry the session id
MessagesUrl_bare(id) == "/messages"

\* new URL('/messages', url.origin) with searchParams sessionId
MessagesUrl(id) == "/messages?sessionId=" \o id

\* the first chunk of a stream: a comment on /mcp, the endpoint event on /sse
InitialFrame(path, id) ==
  IF path = "/mcp" THEN Comment("connected")
  ELSE [event |-> "endpoint", data |-> MessagesUrl(id)]

\* the chunk of the keep-alive: the comment `: ping`
PingFrame == Comment("ping")

\* mutant of TimerDue: the timeout is never set
TimerDue_never(s) == FALSE

\* the setTimeout has run out: no keep-alive period can still end before it
TimerDue(s) ==
  s.timer /\ (~s.interval \/ (s.elapsed + 1) * PingIntervalMs >= MaxDurationMs)

\* the setInterval fires once more, no later than the setTimeout runs out
IntervalDue(s) ==
  s.interval /\ (s.elapsed + 1) * PingIntervalMs <= MaxDurationMs

\* mutant of CatchPing: the failure is swallowed, the interval keeps running
CatchPing_keepsInterval(s) == Failed(s)

\* `catch { clearInterval(pingInterval) }` of the setInterval callback
CatchPing(s) == [Failed(s) EXCEPT !.interval = FALSE]

\* `catch (error) { ... await writer.close() }` of the stream task
CatchConnect(s) == [Failed(s) EXCEPT !.state = "closed"]

\* mutant of AtTimeout: the writer is closed, the interval is left running
AtTimeout_keepsInterval(s) == [s EXCEPT !.state = "closed", !.timer = FALSE]

\* after the setTimeout: `clearInterval(pingInterval)`, then `await writer.close()`
AtTimeout(s) == [s EXCEPT !.interval = FALSE, !.state = "closed", !.timer = FALSE]

InitStream ==
  /\ req \in GetRequests
  /\ pc = "get"
  /\ apiKey = NoHeader
  /\ apiKeyResult = NoResult
  /\ collabCalls = 0
  /\ collabNet = "none"
  /\ bodyRead = FALSE
  /\ messages = <<>>
  /\ idx = 0
  /\ responses = <<>>
  /\ answered = <<>>
  /\ dispatched = <<>>
  /\ toolRuns = <<>>
  /\ http = NoHttp
  /\ ToolsIdle

\* GET /mcp without text/event-stream in Accept: the server info
McpInfo ==
  /\ pc = "get"
  /\ req.path = "/mcp"
  /\ ~IsStreamingGet(req)
  /\ http' = ServerInfo
  /\ pc' = "done"
  /\ UNCHANGED <<req, apiKey, apiKeyResult, collabCalls, collabNet, bodyRead, messages,
                 idx, responses, answered, dispatched, toolRuns>>
  /\ UNCHANGED <<toolVars, stream, prior, proxy>>

\* streaming GET /mcp: extractApiKey and the answer to a missing key
GetExtractStep ==
  /\ pc = "get"
  /\ IsStreamingGet(req)
  /\ apiKey' = extractApiKey(req)
  /\ IF ~apiKey'.present
     THEN /\ http' = AuthErrorResponse("API_KEY_MISSING")
          /\ pc' = "done"
     ELSE /\ http' = http
          /\ pc' = "get:validate"
  /\ UNCHANGED <<req, apiKeyResult, collabCalls, collabNet, bodyRead, messages, idx,
                 responses, answered, dispatched, toolRuns>>
  /\ UNCHANGED <<toolVars, stream, prior, proxy>>

\* streaming GET /mcp: await validateApiKey, the answer to an invalid key, or
\* the session id, the stream and the response that carries it
GetValidateStep ==
  /\ pc = "get:validate"
  /\ \E o \in CollabOutcomes(apiKey.chars) :
       /\ apiKeyResult' = validateApiKey(apiKey.chars, o)
       /\ collabNet' = IF validateApiKeyCalls(apiKey.chars) = 0 THEN "none" ELSE o.net
  /\ collabCalls' = collabCalls + validateApiKeyCalls(apiKey.chars)
  /\ IF GetAuthFailed(apiKeyResult')
     THEN /\ http' = AuthErrorResponse(getAuthError(apiKeyResult'))
          /\ stream' = stream
          /\ pc' = "done"
     ELSE \E id \in UUIDs :
          /\ stream' = OpenStream(id)
          /\ http' = StreamResponse(id)
          /\ pc' = "stream:connect"
  /\ UNCHANGED <<req, apiKey, bodyRead, messages, idx,
                 responses, answered, dispatched, toolRuns>>
  /\ UNCHANGED <<toolVars, prior, proxy>>

\* GET /sse: the session id, the stream and the response, with no credential read
SseOpen ==
  /\ pc = "get"
  /\ req.path = "/sse"
  /\ \E id \in UUIDs : stream' = OpenStream(id)
  /\ http' = StreamResponse("")
  /\ pc' = "stream:connect"
  /\ UNCHANGED <<req, apiKey, apiKeyResult, collabCalls, collabNet, bodyRead, messages,
                 idx, responses, answered, dispatched, toolRuns>>
  /\ UNCHANGED <<toolVars, prior, proxy>>

\* the first write settles: fulfilled, then setInterval and setTimeout; or
\* rejected, then the catch block closes the writer
StreamConnected ==
  /\ pc = "stream:connect"
  /\ \E written \in BOOLEAN :
       IF written
       THEN /\ stream' = [stream EXCEPT !.frames = Append(@, InitialFrame(req.path, stream.sessionId)),
                                        !.interval = TRUE, !.timer = TRUE]
            /\ pc' = "stream:alive"
       ELSE /\ stream' = CatchConnect(stream)
            /\ pc' = "done"
  /\ UNCHANGED <<req, apiKey, apiKeyResult, collabCalls, collabNet, bodyRead, messages,
                 idx, responses, answered, dispatched, toolRuns, http>>
  /\ UNCHANGED <<toolVars, prior, proxy>>

\* the setInterval callback: one keep-alive write; a rejected write clears the
\* interval; a write to a closed writer is always rejected
PingTick ==
  /\ IntervalDue(stream)
  /\ \E written \in (IF stream.state = "open" THEN BOOLEAN ELSE {FALSE}) :
       stream' = IF written
                 THEN [stream EXCEPT !.frames = Append(@, PingFrame),
                                     !.elapsed = @ + 1]
                 ELSE [CatchPing(stream) EXCEPT !.elapsed = @ + 1,
                                                !.late = (stream.state = "closed")]
  /\ UNCHANGED <<pc, req, apiKey, apiKeyResult, collabCalls, collabNet, bodyRead, messages,
                 idx, responses, answered, dispatched, toolRuns, http>>
  /\ UNCHANGED <<toolVars, prior, proxy>>

\* the setTimeout callback resumes the stream's task: clearInterval, writer.close()
MaxDuration ==
  /\ pc = "stream:alive"
  /\ TimerDue(stream)
  /\ stream' = AtTimeout(stream)
  /\ pc' = "done"
  /\ UNCHANGED <<req, apiKey, apiKeyResult, collabCalls, collabNet, bodyRead, messages,
                 idx, responses, answered, dispatched, toolRuns, http>>
  /\ UNCHANGED <<toolVars, prior, proxy>>

NextStream ==
  \/ McpInfo
  \/ GetExtractStep
  \/ GetValidateStep
  \/ SseOpen
  \/ StreamConnected
  \/ PingTick
  \/ MaxDuration

SpecStream == InitStream /\ [][NextStream]_vars

\* timers of the runtime fire and writes to the stream settle
SpecStreamLive ==
  /\ SpecStream
  /\ WF_vars(StreamConnected)
  /\ WF_vars(PingTick)
  /\ WF_vars(MaxDuration)

----------------------------------------------------------------------------
(* Properties of SpecStream *)

\* the credential of the request was found and the collaborator accepted it
Authenticated == apiKey.present /\ apiKeyResult.valid

\* a stream exists, a session id was minted or a frame was written
StreamTouched ==
  \/ stream.state # "none"
  \/ stream.sessionId # ""
  \/ stream.frames # <<>>
  \/ http.session # ""
  \/ http.shape = "stream"

\* the response is one JSON error body of a failed authentication
JsonAuthError ==
  /\ http.ctype = "application/json"
  /\ http.status \in {401, 500}
  /\ \E code \in AuthCodes : IsError(code)

\* C19: on a streaming GET to /mcp authentication runs first: a stream, a
\* session id or a frame exists only after the credential was found and
\* validated, and when the credential is missing or invalid the request ends
\* with no stream, no session id and no frame, answered by an ordinary JSON
\* error body with status 401 or 500.
C19_AuthBeforeStream ==
  IsStreamingGet(req) =>
    /\ StreamTouched => Authenticated
    /\ (Done /\ ~Authenticated) => (JsonAuthError /\ ~StreamTouched /\ stream = NoStream)

\* a streaming GET whose key the collaborator turned away has been answered
C19_Witness ==
  /\ Done
  /\ IsStreamingGet(req)
  /\ apiKey.present
  /\ collabNet = "ok"
  /\ ~apiKeyResult.valid
  /\ http.status = 401

\* the keep-alive comment frame
KeepAlive == [event |-> "", data |-> "ping"]

\* the frames are one initial frame, then keep-alive comments only, at most
\* one for each keep-alive period that has passed
FramesInOrder ==
  /\ \A k \in 1..Len(stream.frames) :
       stream.frames[k] = IF k = 1 THEN InitialFrame(req.path, stream.sessionId)
                          ELSE KeepAlive
  /\ Len(stream.frames) <= 1 + stream.elapsed
  /\ stream.elapsed > 0 => stream.frames # <<>>

\* no keep-alive period ends after the maximum duration
WithinMaxDuration == stream.elapsed * PingIntervalMs <= MaxDurationMs

\* a closed stream has no timer left
TimersCancelled == stream.state = "closed" => (~stream.interval /\ ~stream.timer)

\* C20: every stream opened by a streaming GET has a bounded lifetime: its
\* frames are one initial frame, then only keep-alive comment frames, one per
\* keep-alive period within the maximum duration; the stream is eventually
\* closed, and once it is closed the keep-alive timer is cancelled.
C20_BoundedLifetime ==
  /\ [](FramesInOrder /\ WithinMaxDuration /\ TimersCancelled)
  /\ (stream.state = "open") ~> (stream.state = "closed")

\* a stream that lived for the maximum duration, every keep-alive written, and
\* was closed by the timer
C20_Witness ==
  /\ stream.state = "closed"
  /\ stream.elapsed * PingIntervalMs = MaxDurationMs
  /\ Len(stream.frames) = 1 + stream.elapsed
  /\ stream.frames[Len(stream.frames)] = KeepAlive

\* a write to the stream has failed
WriteFailed == stream.failedAt # -1

\* C21 as stated: once a write to an open stream has failed, initial frame or
\* keep-alive frame, the stream is closed because of it.
C21_Original == WriteFailed => stream.state = "closed"

\* C21: once a write to an open stream has failed no further frame is written
\* and the keep-alive timer is not running; a failed initial frame closes the
\* stream at once, a failed keep-alive frame only cancels the keep-alive
\* timer and leaves the closing to the maximum-duration timer.
C21_WriteFailure ==
  WriteFailed =>
    /\ Len(stream.frames) = stream.failedAt
    /\ ~stream.interval
    /\ ~stream.late
    /\ stream.failedAt = 0 => (stream.state = "closed" /\ ~stream.timer)
    /\ stream.failedAt > 0 => (stream.state = "open" <=> stream.timer)

\* a keep-alive write failed after two frames and the stream was closed later
C21_Witness ==
  /\ stream.failedAt = 2
  /\ stream.state = "closed"
  /\ stream.frames = <<InitialFrame(req.path, stream.sessionId), KeepAlive>>

----------------------------------------------------------------------------
(* The fetch handler with all of its routes on /mcp, /messages and /sse *)

DeleteRequests ==
  [path          : {"/mcp"},
   method        : {"DELETE"},
   xApiKey       : {NoHeader, Hdr(KeyA), Hdr(BadFmt)},
   authorization : {NoHeader, Hdr(BearerSpace \o KeyA)},
   accept        : AcceptVals,
   session       : SessionVals \cup UUIDs,
   body          : {[parse |-> "fail", isArray |-> FALSE, elems |-> <<>>]}]

\* new Response(null, {status: 204, headers: corsHeaders})
NoContent ==
  [status |-> 204, ctype |-> "", shape |-> "none", entries |-> <<>>, session |-> ""]

InitDelete ==
  /\ req \in DeleteRequests
  /\ pc = "delete"
  /\ apiKey = NoHeader
  /\ apiKeyResult = NoResult
  /\ collabCalls = 0
  /\ collabNet = "none"
  /\ bodyRead = FALSE
  /\ messages = <<>>
  /\ idx = 0
  /\ responses = <<>>
  /\ answered = <<>>
  /\ dispatched = <<>>
  /\ toolRuns = <<>>
  /\ http = NoHttp
  /\ ToolsIdle

\* DELETE /mcp: the session id of the request is read and dropped
DeleteStep ==
  /\ pc = "delete"
  /\ http' = NoContent
  /\ pc' = "done"
  /\ UNCHANGED <<req, apiKey, apiKeyResult, collabCalls, collabNet, bodyRead, messages,
                 idx, responses, answered, dispatched, toolRuns>>
  /\ UNCHANGED <<toolVars, stream, prior, proxy>>

InitFetch == Init \/ InitStream \/ InitDelete

NextFetch == Next \/ NextStream \/ DeleteStep

SpecFetch == InitFetch /\ [][NextFetch]_vars

\* the response was built after the messages of a POST /mcp were handled
AfterMessages == http.shape \in {"frames", "array", "object", "empty"} /\ http.status = 200
                 /\ idx = Len(messages) /\ bodyRead

----------------------------------------------------------------------------
(* Two POST requests of one client, one after the other, with or without a
   DELETE /mcp between them.  The second request is the first with another
   session id or sent to the other endpoint; the collaborators answer the
   second as they answered the first. *)

\* bodies of at most one message
PairBodies == {b \in Bodies : Len(b.elems) <= 1}

PairRequests == {r \in Requests : r.body \in PairBodies}

PairDeletes == {d \in DeleteRequests : d.accept = <<>> /\ ~d.authorization.present}

\* the same request with any session id
OtherSession(r) == {[r EXCEPT !.session = s] : s \in SessionVals \cup UUIDs}

\* the single message of a non-streaming POST /mcp sent to /messages
OtherEndpoint(r) ==
  IF r.path = "/mcp" /\ ~r.body.isArray /\ ~Includes(r.accept, EventStream)
  THEN {[r EXCEPT !.path = "/messages", !.accept = a] : a \in AcceptVals}
  ELSE {}

Variants(r) == OtherSession(r) \cup OtherEndpoint(r)

InitPair == Init /\ req \in PairRequests

\* fetch is entered again: nothing of the request before is left
Receive(next) ==
  /\ req' = next
  /\ pc' = IF next.method = "DELETE" THEN "delete" ELSE "extract"
  /\ apiKey' = NoHeader
  /\ apiKeyResult' = NoResult
  /\ collabCalls' = 0
  /\ collabNet' = "none"
  /\ bodyRead' = FALSE
  /\ messages' = <<>>
  /\ idx' = 0
  /\ responses' = <<>>
  /\ answered' = <<>>
  /\ dispatched' = <<>>
  /\ toolRuns' = <<>>
  /\ http' = NoHttp
  /\ stream' = NoStream
  /\ UNCHANGED <<toolVars, proxy>>

\* the first POST is answered; the client sends a DELETE or the second POST
SecondRequest ==
  /\ pc = "done"
  /\ prior.n = 0
  /\ prior' = [n |-> 1, req |-> req, http |-> http, toolRuns |-> toolRuns,
               result |-> apiKeyResult, net |-> collabNet, deleted |-> {}]
  /\ \E next \in Variants(req) \cup PairDeletes : Receive(next)

\* the DELETE is answered; the client sends the second POST
RequestAfterDelete ==
  /\ pc = "done"
  /\ prior.n = 1
  /\ req.method = "DELETE"
  /\ prior' = [prior EXCEPT !.n = 2, !.deleted = {req.session}]
  /\ \E next \in Variants(prior.req) : Receive(next)

NextPair == Next \/ DeleteStep \/ SecondRequest \/ RequestAfterDelete

SpecPair == InitPair /\ [][NextPair]_vars

\* status and body of a response
Outcome(h) == [status |-> h.status, ctype |-> h.ctype, shape |-> h.shape,
               entries |-> h.entries]

\* the tools a request has invoked, in order
Invoked(runs) == [k \in 1..Len(runs) |-> [name |-> runs[k].name, brandId |-> runs[k].brandId]]

\* the second POST is answered and differs from the first in its session id only
SecondOfSameButSession ==
  /\ Done
  /\ prior.n > 0
  /\ req.method = "POST"
  /\ [req EXCEPT !.session = ""] = [prior.req EXCEPT !.session = ""]

\* C23: the session id is a label: two POST requests that differ only in
\* their session id get the same status and body and invoke the same tools,
\* whether or not the id was minted by the server or named in a DELETE
\* before; a DELETE on /mcp is answered 204 with no credential read.
C23_SessionIsLabel ==
  /\ SecondOfSameButSession =>
       /\ Outcome(http) = Outcome(prior.http)
       /\ Invoked(toolRuns) = Invoked(prior.toolRuns)
  /\ (Done /\ req.method = "DELETE") =>
       (http = NoContent /\ collabCalls = 0 /\ ~apiKey.present /\ toolRuns = <<>>)

\* a POST naming the session a DELETE has just terminated ran a tool, as the
\* same POST did before under another session id
C23_Witness ==
  /\ SecondOfSameButSession
  /\ prior.n = 2
  /\ req.session \in prior.deleted
  /\ req.session # prior.req.session
  /\ toolRuns # <<>>
  /\ http.status = 200

----------------------------------------------------------------------------
(* Delivery of the responses of a POST /mcp *)

\* the POST /mcp asks for an event stream
StreamingPost ==
  req.path = "/mcp" /\ req.method = "POST" /\ Includes(req.accept, EventStream)

\* one `event: message` frame for each response, in the order of the responses
FramesFor(list) == [k \in 1..Len(list) |-> [event |-> "message", data |-> list[k]]]

\* a is a prefix of b
IsPrefix(a, b) == Len(a) <= Len(b) /\ \A k \in 1..Len(a) : a[k] = b[k]

\* the JSON body of a POST /mcp that did not ask for an event stream
JsonDelivered ==
  Done /\ req.path = "/mcp" /\ req.method = "POST" /\ AfterMessages
  /\ ~Includes(req.accept, EventStream)

SecondOnOtherEndpoint ==
  /\ Done
  /\ prior.n > 0
  /\ req.method = "POST"
  /\ req.path = "/messages"
  /\ prior.req.path = "/mcp"
  /\ ~prior.req.body.isArray
  /\ ~Includes(prior.req.accept, EventStream)
  /\ [req EXCEPT !.path = "", !.accept = <<>>, !.session = ""]
       = [prior.req EXCEPT !.path = "", !.accept = <<>>, !.session = ""]

\* C25 as stated: POST /messages behaves exactly like a non-streaming
\* single-message POST /mcp: same status, same JSON body and same tool
\* invocations for every credential and every single-message body, and
\* /messages answers in plain JSON whatever its Accept header.
C25_Original ==
  SecondOnOtherEndpoint =>
    /\ Outcome(http) = Outcome(prior.http)
    /\ Invoked(toolRuns) = Invoked(prior.toolRuns)
    /\ http.ctype = "application/json"

----------------------------------------------------------------------------
(* create_expediente, then identify_customer *)

\* CHECK (expediente_estado IN ('abierto', 'cerrado', 'cancelado'))
ExpedienteEstados == {"abierto", "cerrado", "cancelado"}

\* the expedientes that create_expediente has inserted for the customer that
\* the identify_customer call at hand has found, in the caller's tenant
CreatedForFound ==
  {e \in store : /\ e.table = "expedientes"
                 /\ e \notin TenantRows("A") \cup TenantRows("B")
                 /\ e.brand_id = call.brandId
                 /\ e.customer_id = call.rowId
                 /\ e.expediente_estado \notin {"cerrado", "cancelado"}}

\* a request of the call at hand selects the row
Selects(e) ==
  \E k \in 1..Len(queries) :
    /\ queries[k].op = "select"
    /\ queries[k].table = e.table
    /\ \A f \in queries[k].filters : e[f[1]] \in f[2]

\* C26 as stated: after create_expediente succeeded for a customer, an
\* identify_customer call of the same tenant that finds the customer lists
\* that expediente among the open ones: its query for open expedientes
\* selects the row, whose state is one the data store accepts.
C26_Original ==
  (tpc = "returned" /\ call.tool = "identify_customer" /\ call.rowId # "") =>
    \A e \in CreatedForFound :
      e.expediente_estado \in ExpedienteEstados /\ Selects(e)

----------------------------------------------------------------------------
(* The quota of one request *)

\* the authenticated context has one call left
OneCallLeft ==
  /\ apiKeyResult.valid
  /\ apiKeyResult.remaining_calls.defined
  /\ apiKeyResult.remaining_calls.n = 1

\* the handled tools/call messages that name something executeTool runs
NamedToolCalls ==
  {i \in Range(dispatched) :
     /\ messages[i].method = JStr("tools/call")
     /\ Truthy(messages[i].pname)
     /\ RunsFunction(messages[i].pname.s)}

\* no entry that answers message i is the rate-limit error
NotRefused(i) ==
  \A k \in 1..Len(answered) :
    answered[k] = i => ~(responses[k].error.present /\ responses[k].error.code = -32006)

\* with one call left every tools/call handled so far was executed
AllExecuted ==
  OneCallLeft =>
    /\ Len(toolRuns) = Cardinality(NamedToolCalls)
    /\ \A i \in NamedToolCalls : NotRefused(i)

\* C27: the request authenticates once, the context it got is never changed
\* while its messages are handled, and with remaining_calls = 1 every
\* tools/call of the batch is executed, none is refused for the quota.
C27_QuotaFixed ==
  /\ [](collabCalls <= 1 /\ AllExecuted)
  /\ [][pc # "validate" => apiKeyResult' = apiKeyResult]_vars

\* a batch of two tools/call messages was executed with one call left
C27_Witness ==
  /\ Done
  /\ OneCallLeft
  /\ req.path = "/mcp"
  /\ Len(messages) = 2
  /\ Cardinality(NamedToolCalls) = 2
  /\ Len(toolRuns) = 2
  /\ http.status = 200

----------------------------------------------------------------------------
(* The two timers of an event stream *)

\* C28: on a stream opened by GET /mcp or GET /sse no write is issued and no
\* frame is written once the server has closed the stream: the keep-alive
\* interval is not running in any state in which the stream is closed, in
\* whichever order the last keep-alive tick and the maximum-duration timer
\* fire.
C28_NoWriteAfterClose ==
  /\ [](~stream.late /\ (stream.state = "closed" => ~stream.interval))
  /\ [][stream.state = "closed" => stream' = stream]_vars

\* the maximum-duration timer fired before the keep-alive tick due at the
\* same instant: the stream is closed and that tick was never written
C28_Witness ==
  /\ stream.state = "closed"
  /\ ~WriteFailed
  /\ (stream.elapsed + 1) * PingIntervalMs = MaxDurationMs
  /\ Len(stream.frames) = 1 + stream.elapsed

----------------------------------------------------------------------------
(* The legacy SSE flow: GET /sse, then POST /messages *)

\* the request is a GET /sse
SseGet == req.path = "/sse" /\ req.method = "GET"

\* the body of the POST is one well-formed request with an id
WellFormedRequest ==
  /\ req.body.parse = "ok"
  /\ ~req.body.isArray
  /\ ~IsInvalidRequest(req.body.elems[1])
  /\ req.body.elems[1].id # Undefined

\* C29: GET /sse opens a stream and mints a session id whatever credential
\* the request carries: no credential is extracted, no collaborator is
\* called, and the first frame written is the 'endpoint' event whose data is
\* the /messages URL with that session id.  A POST to /messages handles its
\* message only after its own credential was validated, and a validated
\* well-formed request is answered 200 with any or no session id.
C29_SseUnauthenticated ==
  /\ SseGet =>
       /\ ~apiKey.present /\ apiKeyResult = NoResult
       /\ collabCalls = 0 /\ collabNet = "none"
       /\ pc # "get" => (stream.state # "none" /\ stream.sessionId \in UUIDs
                        /\ http.shape = "stream" /\ http.status = 200)
       /\ stream.frames # <<>> =>
            stream.frames[1] = [event |-> "endpoint",
                                data |-> "/messages?sessionId=" \o stream.sessionId]
  /\ (req.path = "/messages" /\ req.method = "POST") =>
       /\ (bodyRead \/ dispatched # <<>>) => Authenticated
       /\ (Done /\ Authenticated /\ WellFormedRequest /\ http.shape # "exception")
            => (http.status = 200 /\ dispatched = <<1>>)

\* a GET /sse that carried no credential at all has its endpoint event written
C29_Witness ==
  /\ SseGet
  /\ NoCredential(req)
  /\ stream.state = "open"
  /\ Len(stream.frames) >= 1
  /\ stream.frames[1].event = "endpoint"
  /\ collabCalls = 0

----------------------------------------------------------------------------
(* The stdio proxy, bin/kntor-mcp.mjs.  stdin is a sequence of tokens: LF is
   the newline, " " a blank, and the others are the tokens of JSON texts:
   "1" the member "id":1 (or the number 1 alone), "z" the member "id":null,
   "n" the literal null.  proxy.input is what stdin still holds,
   proxy.buffer the `buffer` of the data handler, proxy.pending the lines
   split off and not yet handled, each with its position on stdin. *)

MaxLines == 2

LF == "LF"

\* the lines a client can write
LineTexts ==
  { <<"{", "1", "}">>, <<"{", "}">>, <<"{", "z", "}">>, <<"n">>, <<"[", "]">>,
    <<"{">>, <<" ">> }

\* an unterminated last line
TailTexts == { <<>>, <<"{", "1">>, <<"{", "1", "}">> }

RECURSIVE Terminated(_)
\* the lines with their newlines, one after the other
Terminated(ls) ==
  IF ls = <<>> THEN <<>> ELSE Head(ls) \o <<LF>> \o Terminated(Tail(ls))

Stdins ==
  {Terminated(ls) \o t : ls \in SeqsUpTo(LineTexts, MaxLines), t \in TailTexts}

\* `line.trim()` is empty
Blank(line) == \A k \in 1..Len(line) : line[k] = " "

NotBlankToken(c) == c # " "

\* JSON.parse(line): the value, or a SyntaxError
JSONparse(line) ==
  LET text == SelectSeq(line, NotBlankToken) IN
    CASE text = <<"{", "1", "}">> -> [k |-> "object", id |-> JNum(1)]
      [] text = <<"{", "z", "}">> -> [k |-> "object", id |-> JNull]
      [] text = <<"{", "}">>      -> [k |-> "object", id |-> Undefined]
      [] text = <<"[", "]">>      -> [k |-> "array", id |-> Undefined]
      [] text = <<"1">>           -> [k |-> "number", id |-> Undefined]
      [] text = <<"n">>           -> [k |-> "null", id |-> Undefined]
      [] OTHER                    -> [k |-> "SyntaxError", id |-> Undefined]

RECURSIVE Split(_, _)
\* buffer.split('\n'): the pieces between the newlines, `cur` being the piece
\* under way
Split(text, cur) ==
  IF text = <<>> THEN <<cur>>
  ELSE IF Head(text) = LF THEN <<cur>> \o Split(Tail(text), <<>>)
  ELSE Split(Tail(text), Append(cur, Head(text)))

\* all but the last element: `lines` after lines.pop()
Front(list) == SubSeq(list, 1, Len(list) - 1)

\* mutant of Rest: the incomplete line is thrown away
Rest_dropped(list) == <<>>

\* `buffer = lines.pop() || ''`
Rest(list) == list[Len(list)]

\* `message.id !== undefined ? message.id : 0`
RequestId(message) == IF message.id # Undefined THEN message.id ELSE JNum(0)

\* what the server can answer to the POST: 200 with a response object whose
\* id is the one of the request, null or absent, with an array, with the
\* literal null, with no body, with text that is no JSON; another status
\* with a JSON error, with the literal null, with text; or no answer at all
ServerAnswers ==
  {"ok echo", "ok id null", "ok no id", "ok array", "ok null", "ok empty", "ok text",
   "status json", "status null", "status text", "network error"}

\* the id of the response object the server sends
ServerId(message, answer) ==
  IF answer = "ok echo" /\ message.id # Undefined THEN message.id
  ELSE IF answer = "ok no id" THEN Undefined
  ELSE JNull

\* the line handleMessage writes to stdout
StdoutLine(message, answer) ==
  LET requestId == RequestId(message) IN
    CASE answer \in {"status json", "status text"} ->
           [kind |-> "error", code |-> -32000, id |-> requestId]
      [] answer \in {"ok empty", "ok text"} ->
           [kind |-> "error", code |-> -32603, id |-> requestId]
      [] answer \in {"network error", "ok null", "status null"} ->
           [kind |-> "error", code |-> -32603, id |-> requestId]
      [] answer = "ok array" ->
           [kind |-> "array", code |-> 0, id |-> Undefined]
      [] OTHER ->
           [kind |-> "response", code |-> 0,
            id |-> IF ServerId(message, answer) \in {JNull, Undefined}
                   THEN requestId ELSE ServerId(message, answer)]

InitProxy ==
  /\ pc = "proxy"
  /\ req = ToolRequest
  /\ apiKey = NoHeader
  /\ apiKeyResult = NoResult
  /\ collabCalls = 0
  /\ collabNet = "none"
  /\ bodyRead = FALSE
  /\ messages = <<>>
  /\ idx = 0
  /\ responses = <<>>
  /\ answered = <<>>
  /\ dispatched = <<>>
  /\ toolRuns = <<>>
  /\ http = NoHttp
  /\ stream = NoStream
  /\ prior = NoPrior
  /\ tpc = "off"
  /\ call = NoCall
  /\ store = {}
  /\ queries = <<>>
  /\ touched = {}
  /\ ncalls = 0
  /\ fresh = 0
  /\ \E text \in Stdins : proxy = [NoProxy EXCEPT !.stdin = text, !.input = text]

\* stdin 'data': a chunk of any size arrives; the complete lines that are not
\* blank are taken off the buffer, the rest is kept
Data ==
  /\ pc = "proxy"
  /\ \E n \in 1..Len(proxy.input) :
       LET chunk == SubSeq(proxy.input, 1, n)
           lines == Split(proxy.buffer \o chunk, <<>>)
           done  == Front(lines)
       IN proxy' = [proxy EXCEPT
            !.input = SubSeq(@, n + 1, Len(@)),
            !.buffer = Rest(lines),
            !.nlines = @ + Len(done),
            !.pending = @ \cup {[line |-> proxy.nlines + k, text |-> done[k]] :
                                  k \in {j \in 1..Len(done) : ~Blank(done[j])}}]
  /\ UNCHANGED <<httpVars, toolVars, stream, prior>>

\* one line of the loop: JSON.parse and `await handleMessage(message)`; a
\* SyntaxError, or the TypeError of `message.id` on null, is logged to stderr
Handle ==
  /\ pc = "proxy"
  /\ \E p \in proxy.pending :
       LET message == JSONparse(p.text) IN
         IF message.k \in {"SyntaxError", "null"}
         THEN proxy' = [proxy EXCEPT !.pending = @ \ {p},
                                     !.logged = @ \cup {p.line}]
         ELSE \E answer \in ServerAnswers :
                proxy' = [proxy EXCEPT
                  !.pending = @ \ {p},
                  !.forwarded = @ \cup {[line |-> p.line, message |-> message]},
                  !.stdout = Append(@, [line |-> p.line,
                                        out |-> StdoutLine(message, answer)])]
  /\ UNCHANGED <<httpVars, toolVars, stream, prior>>

NextProxy == Data \/ Handle

SpecProxy == InitProxy /\ [][NextProxy]_vars

\* the complete lines of the whole of stdin, and its unterminated rest
CompleteLines == Front(Split(proxy.stdin, <<>>))
Unterminated == Split(proxy.stdin, <<>>)[Len(Split(proxy.stdin, <<>>))]

\* stdin is read to its end and every line taken off it was handled
Quiescent == proxy.input = <<>> /\ proxy.pending = {}

\* the stdout lines written for the i-th line of stdin
WrittenFor(i) == {k \in 1..Len(proxy.stdout) : proxy.stdout[k].line = i}

\* the id the line written for a message has to carry
IdFor(message) == IF message.id # Undefined THEN message.id ELSE JNum(0)

====
